---- MODULE Spec2Model ----
(***************************************************************************)
(* Model of the technical SEO analyzer: the Playwright render orchestrator *)
(* (app/scraper/renderer.py), the content extractor                        *)
(* (app/scraper/extractor.py, helpers.py) and the service layer that calls *)
(* them (app/main.py).                                                     *)
(*                                                                         *)
(* Spec        : concurrent render calls (asyncio tasks), browser deaths   *)
(*               and the host's cleanup(); one step per await point.       *)
(* SpecScroll  : the loop of _progressive_scroll on its own, over every    *)
(*               sequence of measured page heights.                        *)
(* SpecCookies : the loop of _click_cookie_buttons over the consent        *)
(*               selectors, every probe missing, raising or clicking.      *)
(* SpecWait    : the polling loop of _wait_for_content against a clock,    *)
(*               every measurement reporting a count or failing.          *)
(* SpecService : one request to /scrape, /analyze or /extract.             *)
(* SpecExtract : extract_content, step by step, over a set of parsed       *)
(*               documents.                                                *)
(* SpecScore   : the scores and the recommendations of /analyze, over the  *)
(*               issues the analyzers may report.                          *)
(***************************************************************************)
EXTENDS Integers, Sequences, FiniteSets, TLC

(* ------------------------------------------------------------------ *)
(* Bounds                                                             *)
(* ------------------------------------------------------------------ *)
\* Number of render calls that may be in flight together.
NumCalls == 2
\* Page heights the scroll loop may measure are 0..MaxHeight.
MaxHeight == 2
\* _progressive_scroll is explored for max_scrolls in 0..MaxScrollsArg
\* (and for the values the code passes), stability_checks in 0..MaxStabilityArg.
MaxScrollsArg == 5
MaxStabilityArg == 3
\* cleanup() is called at most MaxCleanups times.
MaxCleanups == 2

\* _wait_for_content is explored for timeout_ms in 0..MaxTimeoutMs and min_words in
\* 0..MaxWords; the clock moves in steps of ClockStep milliseconds and the page
\* reports 0..MaxWords words.
MaxTimeoutMs == 1000
MaxWords == 2
ClockStep == 250

\* The bodies extract_content is explored for hold up to MaxBlocks elements.
MaxBlocks == 2
\* The passage of the article has PassageWords words.
PassageWords == 300
\* Tables have 1..MaxHeaders header cells and 0..MaxRows rows of 1..MaxCells cells.
MaxHeaders == 3
MaxRows == 2
MaxCells == 3
\* The Gutenberg, data-attribute and JSON-LD texts have up to MaxStrategyWords words.
MaxStrategyWords == 6
\* An analyzer reports up to MaxIssues issues.
MaxIssues == 5

(* ------------------------------------------------------------------ *)
(* Program constants                                                  *)
(* ------------------------------------------------------------------ *)
\* _progressive_scroll(page, max_scrolls=15, stability_checks=3) at the call site
CallMaxScrolls == 15
CallStabilityChecks == 3
\* def _progressive_scroll(..., max_scrolls: int = 20, stability_checks: int = 3)
DefaultMaxScrolls == 20
\* if final_word_count < 50
LowWordCount == 50
\* await asyncio.sleep(0.5), in milliseconds
PollSleepMs == 500

Calls == 1..NumCalls
None == 0
\* A call starts at most one driver, launches at most one browser and creates at
\* most one context and one page: each such object is named after its call.
BrowserIds == Calls
DriverIds == Calls
ContextIds == Calls
PageIds == Calls
\* Word counts the in-page script may report at capture time.
WordCounts == {0, LowWordCount - 1, LowWordCount}

VARIABLES
    \* module globals of renderer.py
    _browser,        \* the shared Browser handle (None or a browser)
    _playwright,     \* the shared Playwright driver handle (None or a driver)
    \* the world outside the interpreter
    bstate,          \* browser process: "none" | "live" | "dead" | "closed"
    bdriver,         \* the driver a browser was launched through
    dstate,          \* driver process: "none" | "running" | "stopped"
    cstate,          \* browsing context: "none" | "open" | "closed"
    cbrowser,        \* the browser a context lives in
    pstate,          \* page: "none" | "open" | "closed"
    pcontext,        \* the context a page lives in
    \* one render call = one coroutine of get_rendered_html_async
    pc,              \* where the call is
    browser,         \* local `browser`
    context,         \* local `context`
    page,            \* local `page`
    final_word_count,\* local `final_word_count`
    result,          \* what the caller receives
    \* history of a call (not read by the program)
    ran,             \* the phases the call has started, in order
    raisedIn,        \* the step whose exception is leaving the call
    pageUsedBy,      \* calls that drove or closed the page
    ctxUsedBy,       \* calls that opened a page in or closed the context
    \* the host's shutdown handler
    cl_pc,
    cl_browser,      \* the browser object `_browser.close()` was called on
    cl_driver,       \* the driver object `_playwright.stop()` was called on
    cl_calls,        \* history: how many times cleanup() has been called
    cl_alone,        \* history: no render call has been in flight since cleanup() was last called
    \* _progressive_scroll
    s_pc,
    max_scrolls,
    stability_checks,
    last_height,
    stable_count,
    scroll_count,
    measured,        \* history: the height measured last
    lastChange,      \* history: the last iteration whose measurement differed from the one before
    \* _click_cookie_buttons
    ck_pc,
    selector,        \* position of the `for` loop in COOKIE_CONSENT_SELECTORS
    tried,           \* history: the selectors probed, in order
    clicked,         \* history: the selectors whose click() returned
    skipped,         \* history: the selectors whose probe or click raised
    \* the service layer: one request to /scrape, /analyze or /extract
    endpoint,        \* the route the request came to
    request,         \* the parsed request body
    sv_pc,
    html_content,    \* local `html_content`
    sv_raised,       \* the exception on its way to the handler's `except Exception`
    response,        \* what the client receives
    \* extract_content
    html,            \* the argument `html`
    x_pc,
    search_area,     \* local `search_area`
    full_text,       \* local `full_text`
    content_data,    \* what the caller receives
    path,            \* history: "empty" | "kept" | "substituted"
    \* _wait_for_content
    w_pc,
    min_words,       \* the argument `min_words`
    timeout_ms,      \* the argument `timeout_ms`
    start_time,      \* local `start_time`, in milliseconds
    now,             \* asyncio.get_event_loop().time(), in milliseconds
    word_count,      \* what _get_page_word_count returned last
    outcome,         \* history: how the last page.evaluate ended
    measurements,    \* history: number of calls of _get_page_word_count
    w_result,        \* the value returned
    \* /analyze: the scores and the recommendations
    sc_pc,
    sc_results,      \* the analyzers' results: the issues of each category
    scores,          \* local `scores`
    recommendations  \* the `recommendations` of the response

globals == <<_browser, _playwright>>
world == <<bstate, bdriver, dstate, cstate, cbrowser, pstate, pcontext>>
locals == <<browser, context, page, final_word_count>>
history == <<ran, pageUsedBy, ctxUsedBy>>
host == <<cl_pc, cl_browser, cl_driver, cl_calls, cl_alone>>
renderVars == <<globals, world, pc, locals, result, raisedIn, history, host>>
scrollVars == <<s_pc, max_scrolls, stability_checks, last_height, stable_count,
                scroll_count, measured, lastChange>>
cookieVars == <<ck_pc, selector, tried, clicked, skipped>>
serviceVars == <<endpoint, request, sv_pc, html_content, sv_raised, response>>
extractVars == <<html, x_pc, search_area, full_text, content_data, path>>
waitVars == <<w_pc, min_words, timeout_ms, start_time, now, word_count, outcome,
              measurements, w_result>>
scoreVars == <<sc_pc, sc_results, scores, recommendations>>
vars == <<renderVars, scrollVars, cookieVars, serviceVars, extractVars, waitVars, scoreVars>>
\* What each specification leaves alone.
besidesRender == <<scrollVars, cookieVars, serviceVars, extractVars, waitVars, scoreVars>>
besidesScroll == <<renderVars, cookieVars, serviceVars, extractVars, waitVars, scoreVars>>
besidesCookies == <<renderVars, scrollVars, serviceVars, extractVars, waitVars, scoreVars>>
besidesService == <<renderVars, scrollVars, cookieVars, extractVars, waitVars, scoreVars>>
besidesExtract == <<renderVars, scrollVars, cookieVars, serviceVars, waitVars, scoreVars>>
besidesWait == <<renderVars, scrollVars, cookieVars, serviceVars, extractVars, scoreVars>>
besidesScore == <<renderVars, scrollVars, cookieVars, serviceVars, extractVars, waitVars>>

(* ------------------------------------------------------------------ *)
(* Helpers                                                            *)
(* ------------------------------------------------------------------ *)
\* Browser.is_connected()
is_connected(b) == bstate[b] = "live"

\* Contexts and pages die with their browser process.
ContextsOf(bs) == {c \in ContextIds : cstate[c] = "open" /\ cbrowser[c] \in bs}
PagesOf(cs) == {g \in PageIds : pstate[g] = "open" /\ pcontext[g] \in cs}
CloseAll(state, ids) == [i \in DOMAIN state |-> IF i \in ids THEN "closed" ELSE state[i]]

\* What the caller of get_rendered_html_async receives: the markup string (the
\* function returns `str`, which has no place for a quality indicator), or the exception.
Returned == [kind |-> "html", low_confidence |-> FALSE]
Raised == [kind |-> "error", low_confidence |-> FALSE]
Pending == [kind |-> "none", low_confidence |-> FALSE]

(* ------------------------------------------------------------------ *)
(* get_rendered_html_async: the order of its steps inside `try`       *)
(* ------------------------------------------------------------------ *)
\* A slip the ordering claim would expose: consent click before the hydration wait.
StepsReordered == <<"goto", "networkidle", "selectors", "cookies", "hydration", "scroll",
                    "sleep", "wait_content", "networkidle_final", "content", "word_count">>

Steps == <<"goto", "networkidle", "selectors", "hydration", "cookies", "scroll",
           "sleep", "wait_content", "networkidle_final", "content", "word_count">>

IndexOf(seq, x) == CHOOSE i \in 1..Len(seq) : seq[i] = x

\* The step that follows step s when no exception leaves s.
NextStep(s) == IF IndexOf(Steps, s) < Len(Steps) THEN Steps[IndexOf(Steps, s) + 1] ELSE "return"

\* The `finally` clause: `if page: await page.close()`, `if context: await context.close()`.
Finally(p) == IF page[p] # None THEN "close_page"
              ELSE IF context[p] # None THEN "close_context"
              ELSE "done"

InitRender ==
    /\ _browser = None
    /\ _playwright = None
    /\ bstate = [b \in BrowserIds |-> "none"]
    /\ bdriver = [b \in BrowserIds |-> None]
    /\ dstate = [d \in DriverIds |-> "none"]
    /\ cstate = [c \in ContextIds |-> "none"]
    /\ cbrowser = [c \in ContextIds |-> None]
    /\ pstate = [g \in PageIds |-> "none"]
    /\ pcontext = [g \in PageIds |-> None]
    /\ pc = [p \in Calls |-> "idle"]
    /\ browser = [p \in Calls |-> None]
    /\ context = [p \in Calls |-> None]
    /\ page = [p \in Calls |-> None]
    /\ final_word_count = [p \in Calls |-> 0]
    /\ result = [p \in Calls |-> Pending]
    /\ ran = [p \in Calls |-> <<>>]
    /\ raisedIn = [p \in Calls |-> "none"]
    /\ pageUsedBy = [g \in PageIds |-> {}]
    /\ ctxUsedBy = [c \in ContextIds |-> {}]
    /\ cl_pc = "idle"
    /\ cl_browser = None
    /\ cl_driver = None
    /\ cl_calls = 0
    /\ cl_alone = FALSE

\* The parts that are not under observation: no scroll loop, no consent loop,
\* no request, no extraction and no scoring, but for those named in `active`.
Quiet(active) ==
    /\ IF "scroll" \in active THEN TRUE
       ELSE /\ s_pc = "off"
            /\ max_scrolls = 0
            /\ stability_checks = 0
            /\ last_height = 0
            /\ stable_count = 0
            /\ scroll_count = 0
            /\ measured = 0
            /\ lastChange = 0
    /\ IF "cookies" \in active THEN TRUE
       ELSE /\ ck_pc = "off"
            /\ selector = 0
            /\ tried = <<>>
            /\ clicked = <<>>
            /\ skipped = {}
    /\ IF "service" \in active THEN TRUE
       ELSE /\ endpoint = "none"
            /\ request = [use_playwright |-> FALSE, wait_for_network |-> FALSE,
                          handle_cookies |-> FALSE, block_resources |-> FALSE]
            /\ sv_pc = "off"
            /\ html_content = "none"
            /\ sv_raised = "none"
            /\ response = [status |-> 0, detail |-> "none"]
    /\ IF "extract" \in active THEN TRUE
       ELSE /\ html = "none"
            /\ x_pc = "off"
            /\ search_area = "none"
            /\ full_text = <<>>
            /\ content_data = "none"
            /\ path = "none"
    /\ IF "wait" \in active THEN TRUE
       ELSE /\ w_pc = "off"
            /\ min_words = 0
            /\ timeout_ms = 0
            /\ start_time = 0
            /\ now = 0
            /\ word_count = 0
            /\ outcome = [raised |-> FALSE, value |-> 0]
            /\ measurements = 0
            /\ w_result = FALSE
    /\ IF "score" \in active THEN TRUE
       ELSE /\ sc_pc = "off"
            /\ sc_results = <<>>
            /\ scores = <<>>
            /\ recommendations = <<>>

\* The render calls on their own.
Init ==
    /\ InitRender
    /\ Quiet({})

(* ------------------------------------------------------------------ *)
(* _get_browser                                                       *)
(* ------------------------------------------------------------------ *)
\* A slip the liveness claim would expose: only the unset handle is tested.
NeedsLaunchUnsetOnly == _browser = None

\* `if _browser is None or not _browser.is_connected():`
NeedsLaunch == _browser = None \/ ~is_connected(_browser)

\* A call enters get_rendered_html_async and _get_browser: either the shared
\* browser is alive and is returned at once, or the call suspends in
\* `await async_playwright().start()`.
GetBrowser(p) ==
    /\ pc[p] = "idle"
    /\ \A q \in Calls : q < p => pc[q] # "idle"   \* calls are numbered as they arrive
    /\ IF NeedsLaunch
       THEN /\ pc' = [pc EXCEPT ![p] = "start"]
            /\ UNCHANGED browser
       ELSE /\ pc' = [pc EXCEPT ![p] = "new_context"]
            /\ browser' = [browser EXCEPT ![p] = _browser]
    /\ cl_alone' = FALSE
    /\ UNCHANGED <<globals, world, context, page, final_word_count, result, raisedIn,
                   history, cl_pc, cl_browser, cl_driver, cl_calls, besidesRender>>

\* start() completes: `_playwright = ...` is assigned and
\* `_playwright.chromium.launch(...)` is called on it; the call suspends again.
PlaywrightStarted(p) ==
    /\ pc[p] = "start"
    /\ dstate' = [dstate EXCEPT ![p] = "running"]
    /\ _playwright' = p
    /\ pc' = [pc EXCEPT ![p] = "launch"]
    /\ UNCHANGED <<_browser, bstate, bdriver, cstate, cbrowser, pstate, pcontext,
                   locals, result, raisedIn, history, host, besidesRender>>

\* launch(), called on the driver this call started, completes: `_browser = ...`
\* is assigned and returned, with no await between.
BrowserLaunched(p) ==
    /\ pc[p] = "launch"
    /\ dstate[p] = "running"
    /\ bstate' = [bstate EXCEPT ![p] = "live"]
    /\ bdriver' = [bdriver EXCEPT ![p] = p]
    /\ _browser' = p
    /\ browser' = [browser EXCEPT ![p] = p]
    /\ pc' = [pc EXCEPT ![p] = "new_context"]
    /\ UNCHANGED <<_playwright, dstate, cstate, cbrowser, pstate, pcontext, context, page,
                   final_word_count, result, raisedIn, history, host, besidesRender>>

\* launch() raises (the driver was stopped meanwhile, or Chromium cannot start):
\* _get_browser is called outside `try`, so the exception goes straight to the caller.
LaunchRaises(p) ==
    /\ pc[p] = "launch"
    /\ pc' = [pc EXCEPT ![p] = "done"]
    /\ raisedIn' = [raisedIn EXCEPT ![p] = "launch"]
    /\ result' = [result EXCEPT ![p] = Raised]
    /\ UNCHANGED <<globals, world, locals, history, host, besidesRender>>

(* ------------------------------------------------------------------ *)
(* get_rendered_html_async                                            *)
(* ------------------------------------------------------------------ *)
\* The call is over and its frame is discarded.
Leave(p) ==
    /\ pc' = [pc EXCEPT ![p] = "done"]
    /\ browser' = [browser EXCEPT ![p] = None]
    /\ context' = [context EXCEPT ![p] = None]
    /\ page' = [page EXCEPT ![p] = None]
    /\ final_word_count' = [final_word_count EXCEPT ![p] = 0]

\* An exception leaves the `try` block at step `where`: `except` logs and
\* re-raises, and control enters `finally`.
Raise(p, where) ==
    /\ raisedIn' = [raisedIn EXCEPT ![p] = where]
    /\ IF Finally(p) = "done"
       THEN Leave(p) /\ result' = [result EXCEPT ![p] = Raised]
       ELSE pc' = [pc EXCEPT ![p] = Finally(p)] /\ UNCHANGED <<locals, result>>

\* A step of the call that drives its page: the page must still be there.
PageAlive(p) == pstate[page[p]] = "open"
Drive(p) == pageUsedBy' = [pageUsedBy EXCEPT ![page[p]] = @ \cup {p}]

\* A slip the isolation claim would expose: an open context of the browser is reused.
new_context_reused(b, p) ==
    IF ContextsOf({b}) # {} THEN CHOOSE c \in ContextsOf({b}) : TRUE ELSE p

\* The context `browser.new_context(...)` hands to call p: always a new one.
new_context(b, p) == p

\* `context = await browser.new_context(...)`
NewContext(p) ==
    /\ pc[p] = "new_context"
    /\ \/ /\ is_connected(browser[p])
          /\ LET c == new_context(browser[p], p) IN
               /\ cstate' = [cstate EXCEPT ![c] = "open"]
               /\ cbrowser' = [cbrowser EXCEPT ![c] = browser[p]]
               /\ context' = [context EXCEPT ![p] = c]
          /\ pc' = [pc EXCEPT ![p] = "new_page"]
          /\ UNCHANGED <<browser, page, final_word_count, raisedIn, result>>
       \/ /\ Raise(p, "new_context")
          /\ UNCHANGED <<cstate, cbrowser>>
    /\ UNCHANGED <<globals, bstate, bdriver, dstate, pstate, pcontext, history, host,
                   besidesRender>>

\* `page = await context.new_page()`
NewPage(p) ==
    /\ pc[p] = "new_page"
    /\ \/ /\ cstate[context[p]] = "open"
          /\ pstate' = [pstate EXCEPT ![p] = "open"]
          /\ pcontext' = [pcontext EXCEPT ![p] = context[p]]
          /\ page' = [page EXCEPT ![p] = p]
          /\ ctxUsedBy' = [ctxUsedBy EXCEPT ![context[p]] = @ \cup {p}]
          /\ pc' = [pc EXCEPT ![p] = Steps[1]]
          /\ UNCHANGED <<browser, context, final_word_count, raisedIn, result>>
       \/ /\ Raise(p, "new_page")
          /\ UNCHANGED <<pstate, pcontext, ctxUsedBy>>
    /\ UNCHANGED <<globals, bstate, bdriver, dstate, cstate, cbrowser, ran, pageUsedBy,
                   host, besidesRender>>

\* What a step inside `try` leaves alone unless it says otherwise.
StepFrame == UNCHANGED <<globals, world, ctxUsedBy, host, besidesRender>>
Continue(p) == pc' = [pc EXCEPT ![p] = NextStep(pc[p])] /\ UNCHANGED <<locals, raisedIn, result>>

\* Step 1: `await page.goto(...)` inside `try: ... except Exception as e:
\* logger.warning(...)`. When goto raises the call is in that handler, and
\* falls through to step 2.
Goto(p) ==
    /\ pc[p] = "goto"
    /\ ran' = [ran EXCEPT ![p] = Append(@, "goto")]
    /\ Drive(p)
    /\ \/ PageAlive(p) /\ pc' = [pc EXCEPT ![p] = NextStep("goto")]
       \/ pc' = [pc EXCEPT ![p] = "goto_except"]
    /\ UNCHANGED <<locals, raisedIn, result>>
    /\ StepFrame

\* Steps 2 and 9: `page.wait_for_load_state('networkidle')` inside `try/except: pass`.
NetworkIdle(p) ==
    /\ pc[p] \in {"networkidle", "goto_except", "networkidle_final"}
    /\ Drive(p)
    /\ pc' = [pc EXCEPT ![p] = NextStep(IF pc[p] = "goto_except" THEN "networkidle" ELSE pc[p])]
    /\ UNCHANGED <<locals, raisedIn, result, ran>>
    /\ StepFrame

\* Step 3: _wait_for_selectors. Every probe is inside `try/except: continue`.
WaitForSelectors(p) ==
    /\ pc[p] = "selectors"
    /\ ran' = [ran EXCEPT ![p] = Append(@, "selectors")]
    /\ Drive(p)
    /\ Continue(p)
    /\ StepFrame

\* Step 4: _wait_for_hydration. wait_for_function is inside `try/except Exception`.
WaitForHydration(p) ==
    /\ pc[p] = "hydration"
    /\ ran' = [ran EXCEPT ![p] = Append(@, "hydration")]
    /\ Drive(p)
    /\ Continue(p)
    /\ StepFrame

\* Step 5: _click_cookie_buttons. Every selector is tried inside `try/except: continue`.
ClickCookieButtons(p) ==
    /\ pc[p] = "cookies"
    /\ ran' = [ran EXCEPT ![p] = Append(@, "cookies")]
    /\ Drive(p)
    /\ Continue(p)
    /\ StepFrame

\* Step 6: _progressive_scroll. Its page.evaluate('window.scrollBy...') and
\* page.evaluate('window.scrollTo...') calls are not inside any `try`: the
\* function returns, or one of them raises and the exception leaves the function.
ProgressiveScroll(p) ==
    /\ pc[p] = "scroll"
    /\ ran' = [ran EXCEPT ![p] = Append(@, "scroll")]
    /\ Drive(p)
    /\ \/ PageAlive(p) /\ Continue(p)
       \/ Raise(p, "scroll")
    /\ StepFrame

\* Step 7: `await asyncio.sleep(scroll_wait_ms / 1000)`
Sleep(p) ==
    /\ pc[p] = "sleep"
    /\ Continue(p)
    /\ UNCHANGED <<ran, pageUsedBy>>
    /\ StepFrame

\* Step 8: _wait_for_content; _get_page_word_count swallows every exception,
\* and the returned content_ready is not used.
WaitForContent(p) ==
    /\ pc[p] = "wait_content"
    /\ ran' = [ran EXCEPT ![p] = Append(@, "wait_content")]
    /\ Drive(p)
    /\ Continue(p)
    /\ StepFrame

\* Step 10: `html = await page.content()`, not inside an inner `try`.
Content(p) ==
    /\ pc[p] = "content"
    /\ ran' = [ran EXCEPT ![p] = Append(@, "content")]
    /\ Drive(p)
    /\ \/ PageAlive(p) /\ Continue(p)
       \/ Raise(p, "content")
    /\ StepFrame

\* `final_word_count = await _get_page_word_count(page)` (0 when the evaluation
\* fails), the low-count warning, and `return html`: control enters `finally`.
FinalWordCount(p) ==
    /\ pc[p] = "word_count"
    /\ \E n \in WordCounts :
         /\ n > 0 => PageAlive(p)
         /\ final_word_count' = [final_word_count EXCEPT ![p] = n]
    /\ Drive(p)
    /\ pc' = [pc EXCEPT ![p] = Finally(p)]
    /\ UNCHANGED <<browser, context, page, result, raisedIn, ran>>
    /\ StepFrame

\* What the caller gets when `finally` ends without an exception of its own.
Outcome(p) == IF raisedIn[p] = "none" THEN Returned ELSE Raised

\* `finally: if page: await page.close()`. When close() raises, the exception
\* leaves `finally` at once, replacing any return value or earlier exception.
ClosePage(p) ==
    /\ pc[p] = "close_page"
    /\ Drive(p)
    /\ \/ /\ pstate' = [pstate EXCEPT ![page[p]] = "closed"]
          /\ IF context[p] # None
             THEN /\ pc' = [pc EXCEPT ![p] = "close_context"]
                  /\ UNCHANGED <<locals, result>>
             ELSE /\ Leave(p)
                  /\ result' = [result EXCEPT ![p] = Outcome(p)]
          /\ UNCHANGED raisedIn
       \/ /\ Leave(p)
          /\ raisedIn' = [raisedIn EXCEPT ![p] = "page.close"]
          /\ result' = [result EXCEPT ![p] = Raised]
          /\ UNCHANGED pstate
    /\ UNCHANGED <<globals, bstate, bdriver, dstate, cstate, cbrowser, pcontext,
                   ran, ctxUsedBy, host, besidesRender>>

\* `finally: ... if context: await context.close()`, then the call is over:
\* the caller gets the markup, or the exception that is in flight.
CloseContext(p) ==
    /\ pc[p] = "close_context"
    /\ ctxUsedBy' = [ctxUsedBy EXCEPT ![context[p]] = @ \cup {p}]
    /\ Leave(p)
    /\ \/ /\ cstate' = [cstate EXCEPT ![context[p]] = "closed"]
          /\ pstate' = CloseAll(pstate, PagesOf({context[p]}))
          /\ result' = [result EXCEPT ![p] = Outcome(p)]
          /\ UNCHANGED raisedIn
       \/ /\ raisedIn' = [raisedIn EXCEPT ![p] = "context.close"]
          /\ result' = [result EXCEPT ![p] = Raised]
          /\ UNCHANGED <<cstate, pstate>>
    /\ UNCHANGED <<globals, bstate, bdriver, dstate, cbrowser, pcontext,
                   ran, pageUsedBy, host, besidesRender>>

(* ------------------------------------------------------------------ *)
(* The browser process                                                *)
(* ------------------------------------------------------------------ *)
\* The browser process dies (crash, kill): is_connected() turns False and its
\* contexts and pages are gone.
BrowserDies(b) ==
    /\ bstate[b] = "live"
    /\ bstate' = [bstate EXCEPT ![b] = "dead"]
    /\ cstate' = CloseAll(cstate, ContextsOf({b}))
    /\ pstate' = CloseAll(pstate, PagesOf(ContextsOf({b})))
    /\ UNCHANGED <<globals, bdriver, dstate, cbrowser, pcontext, pc, locals, result,
                   raisedIn, history, host, besidesRender>>

(* ------------------------------------------------------------------ *)
(* cleanup() -> _close_browser(), called by shutdown_event            *)
(* ------------------------------------------------------------------ *)
\* `if _playwright: await _playwright.stop()`: the call suspends in stop(), or
\* _close_browser returns.
StopOrReturn ==
    IF _playwright # None
    THEN cl_pc' = "stopping" /\ cl_driver' = _playwright
    ELSE cl_pc' = "done" /\ UNCHANGED cl_driver

\* cleanup() is called, by shutdown_event or again: `if _browser: await _browser.close()`.
Cleanup ==
    /\ cl_pc \in {"idle", "done"}
    /\ cl_calls < MaxCleanups
    /\ cl_calls' = cl_calls + 1
    /\ cl_alone' = \A p \in Calls : pc[p] \in {"idle", "done"}
    /\ IF _browser # None
       THEN cl_pc' = "closing" /\ cl_browser' = _browser /\ UNCHANGED cl_driver
       ELSE StopOrReturn /\ UNCHANGED cl_browser
    /\ UNCHANGED <<globals, world, pc, locals, result, raisedIn, history, besidesRender>>

\* A slip the second cleanup() would expose: the handle is kept after close().
HandleAfterCloseKept(handle) == handle

\* `_browser = None` after `await _browser.close()`; `_playwright = None` after stop()
HandleAfterClose(handle) == None

\* close() completes: `_browser = None`, then the driver's turn.
BrowserClosed ==
    /\ cl_pc = "closing"
    /\ bstate' = [bstate EXCEPT ![cl_browser] = "closed"]
    /\ cstate' = CloseAll(cstate, ContextsOf({cl_browser}))
    /\ pstate' = CloseAll(pstate, PagesOf(ContextsOf({cl_browser})))
    /\ _browser' = HandleAfterClose(_browser)
    /\ StopOrReturn
    /\ UNCHANGED <<_playwright, bdriver, dstate, cbrowser, pcontext, pc, locals, result,
                   raisedIn, history, cl_browser, cl_calls, cl_alone, besidesRender>>

\* stop() completes: the driver is gone, and with it the browsers it launched;
\* `_playwright = None`.
DriverStopped ==
    /\ cl_pc = "stopping"
    /\ dstate' = [dstate EXCEPT ![cl_driver] = "stopped"]
    /\ LET gone == {b \in BrowserIds : bstate[b] = "live" /\ bdriver[b] = cl_driver} IN
         /\ bstate' = CloseAll(bstate, gone)
         /\ cstate' = CloseAll(cstate, ContextsOf(gone))
         /\ pstate' = CloseAll(pstate, PagesOf(ContextsOf(gone)))
    /\ _playwright' = HandleAfterClose(_playwright)
    /\ cl_pc' = "done"
    /\ UNCHANGED <<_browser, bdriver, cbrowser, pcontext, pc, locals, result,
                   raisedIn, history, cl_browser, cl_driver, cl_calls, cl_alone, besidesRender>>

Next ==
    \/ \E p \in Calls : GetBrowser(p)
    \/ \E p \in Calls : PlaywrightStarted(p)
    \/ \E p \in Calls : BrowserLaunched(p)
    \/ \E p \in Calls : LaunchRaises(p)
    \/ \E p \in Calls : NewContext(p)
    \/ \E p \in Calls : NewPage(p)
    \/ \E p \in Calls : Goto(p)
    \/ \E p \in Calls : NetworkIdle(p)
    \/ \E p \in Calls : WaitForSelectors(p)
    \/ \E p \in Calls : WaitForHydration(p)
    \/ \E p \in Calls : ClickCookieButtons(p)
    \/ \E p \in Calls : ProgressiveScroll(p)
    \/ \E p \in Calls : Sleep(p)
    \/ \E p \in Calls : WaitForContent(p)
    \/ \E p \in Calls : Content(p)
    \/ \E p \in Calls : FinalWordCount(p)
    \/ \E p \in Calls : ClosePage(p)
    \/ \E p \in Calls : CloseContext(p)
    \/ \E b \in BrowserIds : BrowserDies(b)
    \/ Cleanup
    \/ BrowserClosed
    \/ DriverStopped

Spec == Init /\ [][Next]_vars

(* ------------------------------------------------------------------ *)
(* _progressive_scroll                                                *)
(* ------------------------------------------------------------------ *)
\* What _get_page_height may return: the page's scrollHeight, or 0 when the
\* evaluation raises (`except: return 0`) or yields nothing (`height or 0`).
Heights == 0..MaxHeight

\* The arguments the loop is explored for, the call site's and the defaults among them.
MaxScrollsArgs == (0..MaxScrollsArg) \cup {CallMaxScrolls, DefaultMaxScrolls}
StabilityArgs == (0..MaxStabilityArg) \cup {CallStabilityChecks}

\* `last_height = await _get_page_height(page)`, `stable_count = 0`, `scroll_count = 0`
InitScroll ==
    /\ InitRender
    /\ max_scrolls \in MaxScrollsArgs
    /\ stability_checks \in StabilityArgs
    /\ last_height \in Heights
    /\ measured = last_height
    /\ stable_count = 0
    /\ scroll_count = 0
    /\ lastChange = 0
    /\ s_pc = "loop"
    /\ Quiet({"scroll"})

\* A slip the loop's counters would expose: one pass too many is allowed.
LoopConditionLax == scroll_count <= max_scrolls /\ stable_count < stability_checks

\* `while scroll_count < max_scrolls and stable_count < stability_checks:`
LoopCondition == scroll_count < max_scrolls /\ stable_count < stability_checks

\* A slip the loop's bound would expose: the new height is never remembered.
HeightCheckForgetful(new_height, last, stable) ==
    IF new_height = last
    THEN [stable_count |-> stable + 1, last_height |-> last]
    ELSE [stable_count |-> 0, last_height |-> last]

\* `if new_height == last_height: stable_count += 1`
\* `else: stable_count = 0; last_height = new_height`
HeightCheck(new_height, last, stable) ==
    IF new_height = last
    THEN [stable_count |-> stable + 1, last_height |-> last]
    ELSE [stable_count |-> 0, last_height |-> new_height]

\* One pass through the loop body: scroll by a viewport, sleep, measure, compare, count.
ScrollIteration ==
    /\ s_pc = "loop"
    /\ LoopCondition
    /\ \E new_height \in Heights :
         /\ stable_count' = HeightCheck(new_height, last_height, stable_count).stable_count
         /\ last_height' = HeightCheck(new_height, last_height, stable_count).last_height
         /\ lastChange' = IF new_height # measured THEN scroll_count + 1 ELSE lastChange
         /\ measured' = new_height
    /\ scroll_count' = scroll_count + 1
    /\ UNCHANGED <<s_pc, max_scrolls, stability_checks, besidesScroll>>

\* `await page.evaluate('window.scrollBy(0, window.innerHeight)')` raises: nothing
\* in _progressive_scroll catches it.
ScrollByRaises ==
    /\ s_pc = "loop"
    /\ LoopCondition
    /\ s_pc' = "raised"
    /\ UNCHANGED <<max_scrolls, stability_checks, last_height, stable_count, scroll_count,
                   measured, lastChange, besidesScroll>>

\* The loop is left: scroll to the bottom, sleep, scroll back to the top; either
\* evaluate may raise.
ScrollReturn ==
    /\ s_pc = "loop"
    /\ ~LoopCondition
    /\ s_pc' \in {"returned", "raised"}
    /\ UNCHANGED <<max_scrolls, stability_checks, last_height, stable_count, scroll_count,
                   measured, lastChange, besidesScroll>>

NextScroll ==
    \/ ScrollIteration
    \/ ScrollByRaises
    \/ ScrollReturn

SpecScroll == InitScroll /\ [][NextScroll]_vars

(* ------------------------------------------------------------------ *)
(* _click_cookie_buttons                                              *)
(* ------------------------------------------------------------------ *)
COOKIE_CONSENT_SELECTORS ==
    <<"#onetrust-accept-btn-handler",
      "#CybotCookiebotDialogBodyLevelButtonLevelOptinAllowAll",
      ".cc-btn.cc-allow",
      "button[id*=\"accept\" i]",
      "button[class*=\"accept\" i]",
      "button:has-text(\"Accept\")",
      "button:has-text(\"Accept All\")",
      "button:has-text(\"I Agree\")",
      "button:has-text(\"OK\")",
      "button:has-text(\"Kabul\")",
      "button:has-text(\"Tamam\")",
      "[aria-label*=\"Accept\" i]">>

\* `for selector in COOKIE_CONSENT_SELECTORS:` entered
InitCookies ==
    /\ InitRender
    /\ Quiet({"cookies"})
    /\ ck_pc = "loop"
    /\ selector = 1
    /\ tried = <<>>
    /\ clicked = <<>>
    /\ skipped = {}

\* A slip the single click would expose: the `return` after the click is missing.
AfterClickContinues(i) == [ck_pc |-> "loop", selector |-> i + 1]

\* `await btn.click(...)`, `await asyncio.sleep(0.3)`, `return`
AfterClick(i) == [ck_pc |-> "returned", selector |-> i]

InLoop == ck_pc = "loop" /\ selector <= Len(COOKIE_CONSENT_SELECTORS)

\* `btn.count() > 0 and btn.is_visible()` is false (no element, or a hidden
\* one): the loop goes on to the next selector.
ProbeMisses ==
    /\ InLoop
    /\ tried' = Append(tried, selector)
    /\ selector' = selector + 1
    /\ UNCHANGED <<ck_pc, clicked, skipped, besidesCookies>>

\* count(), is_visible() or click() raises: `except: continue`
SelectorRaises ==
    /\ InLoop
    /\ tried' = Append(tried, selector)
    /\ skipped' = skipped \cup {selector}
    /\ selector' = selector + 1
    /\ UNCHANGED <<ck_pc, clicked, besidesCookies>>

\* The element is there and visible, and click() returns.
ClickSucceeds ==
    /\ InLoop
    /\ tried' = Append(tried, selector)
    /\ clicked' = Append(clicked, selector)
    /\ ck_pc' = AfterClick(selector).ck_pc
    /\ selector' = AfterClick(selector).selector
    /\ UNCHANGED <<skipped, besidesCookies>>

\* The list is exhausted: the function returns.
SelectorsExhausted ==
    /\ ck_pc = "loop"
    /\ selector > Len(COOKIE_CONSENT_SELECTORS)
    /\ ck_pc' = "returned"
    /\ UNCHANGED <<selector, tried, clicked, skipped, besidesCookies>>

NextCookies ==
    \/ ProbeMisses
    \/ SelectorRaises
    \/ ClickSucceeds
    \/ SelectorsExhausted

SpecCookies == InitCookies /\ [][NextCookies]_vars

(* ------------------------------------------------------------------ *)
(* _wait_for_content                                                  *)
(* ------------------------------------------------------------------ *)
\* How page.evaluate may end inside _get_page_word_count: it raises, or it yields
\* the number of words the in-page script counted.
Evaluations ==
    {[raised |-> TRUE, value |-> 0]} \cup {[raised |-> FALSE, value |-> n] : n \in 0..MaxWords}

\* `return word_count or 0`, and `except Exception: return 0`
_get_page_word_count(evaluation) == IF evaluation.raised THEN 0 ELSE evaluation.value

\* Time an await may take beyond what was asked for: none, or one step of the clock.
Delays == {0, ClockStep}

\* `start_time = asyncio.get_event_loop().time()`
InitWait ==
    /\ InitRender
    /\ Quiet({"wait"})
    /\ w_pc = "loop"
    /\ min_words \in 0..MaxWords
    /\ timeout_ms \in {t \in 0..MaxTimeoutMs : t % ClockStep = 0}
    /\ start_time \in Delays
    /\ now = start_time
    /\ word_count = 0
    /\ outcome = [raised |-> FALSE, value |-> 0]
    /\ measurements = 0
    /\ w_result = FALSE

\* A slip the returned value would expose: the threshold itself is not enough.
EnoughStrict(count, threshold) == count > threshold

\* `if word_count >= min_words:` and `return final_count >= min_words`
Enough(count, threshold) == count >= threshold

\* `while (asyncio.get_event_loop().time() - start_time) < timeout_sec:`
WaitCondition == now - start_time < timeout_ms

\* One pass through the loop: measure; return True when there are enough words,
\* else go to sleep.
PollMeasure ==
    /\ w_pc = "loop"
    /\ WaitCondition
    /\ \E evaluation \in Evaluations, took \in Delays :
         /\ outcome' = evaluation
         /\ word_count' = _get_page_word_count(evaluation)
         /\ now' = now + took
    /\ measurements' = measurements + 1
    /\ IF Enough(word_count', min_words)
       THEN w_pc' = "returned" /\ w_result' = TRUE
       ELSE w_pc' = "sleep" /\ UNCHANGED w_result
    /\ UNCHANGED <<min_words, timeout_ms, start_time, besidesWait>>

\* `await asyncio.sleep(0.5)`: at least half a second passes.
PollSleep ==
    /\ w_pc = "sleep"
    /\ \E late \in Delays : now' = now + PollSleepMs + late
    /\ w_pc' = "loop"
    /\ UNCHANGED <<min_words, timeout_ms, start_time, word_count, outcome, measurements,
                   w_result, besidesWait>>

\* The loop is left: `final_count = await _get_page_word_count(page)`,
\* `return final_count >= min_words`.
FinalCheck ==
    /\ w_pc = "loop"
    /\ ~WaitCondition
    /\ \E evaluation \in Evaluations, took \in Delays :
         /\ outcome' = evaluation
         /\ word_count' = _get_page_word_count(evaluation)
         /\ now' = now + took
    /\ measurements' = measurements + 1
    /\ w_result' = Enough(word_count', min_words)
    /\ w_pc' = "returned"
    /\ UNCHANGED <<min_words, timeout_ms, start_time, besidesWait>>

NextWait ==
    \/ PollMeasure
    \/ PollSleep
    \/ FinalCheck

\* The event loop resumes the coroutine whenever the awaited evaluate or sleep is over.
SpecWait == InitWait /\ [][NextWait]_vars /\ WF_vars(NextWait)

(* ------------------------------------------------------------------ *)
(* The service layer: /scrape, /analyze, /extract (app/main.py)       *)
(* ------------------------------------------------------------------ *)
Endpoints == {"/scrape", "/analyze", "/extract"}

\* ScrapeRequest / AnalyzeRequest: every flag is optional and defaults to True
\* (AnalyzeRequest has no block_resources: /analyze passes True itself).
Requests == [use_playwright : BOOLEAN, wait_for_network : BOOLEAN,
             handle_cookies : BOOLEAN, block_resources : BOOLEAN]
DefaultRequest == [use_playwright |-> TRUE, wait_for_network |-> TRUE,
                   handle_cookies |-> TRUE, block_resources |-> TRUE]

\* The parameters `def get_rendered_html_async(...)` declares.
RendererParameters == {"url", "timeout_ms", "min_words", "scroll_wait_ms", "content_wait_ms"}

\* The keyword arguments of the call `get_rendered_html_async(url_str, ...)`
\* each handler makes.
CallKeywords(e) == {"wait_for_network", "handle_cookies", "block_resources"}

\* Python binds a call's keywords to the function's parameters before the
\* body runs: a keyword the function does not declare is a TypeError.
BindsTo(keywords, parameters) == keywords \subseteq parameters

InitService ==
    /\ InitRender
    /\ Quiet({"service"})
    /\ endpoint \in Endpoints
    /\ request \in Requests
    /\ endpoint = "/analyze" => request.block_resources
    /\ sv_pc = "fetch"
    /\ html_content = "none"
    /\ sv_raised = "none"
    /\ response = [status |-> 0, detail |-> "none"]

\* `if request.use_playwright: html_content = await get_rendered_html_async(url_str, ...)`
\* The call raises TypeError when its keywords do not bind; otherwise the
\* renderer runs and returns markup or raises.
CallRenderer ==
    /\ sv_pc = "fetch"
    /\ request.use_playwright
    /\ IF BindsTo(CallKeywords(endpoint), RendererParameters)
       THEN \/ html_content' = "rendered" /\ sv_pc' = "extract" /\ UNCHANGED sv_raised
            \/ sv_raised' = "RenderError" /\ sv_pc' = "except" /\ UNCHANGED html_content
       ELSE sv_raised' = "TypeError" /\ sv_pc' = "except" /\ UNCHANGED html_content
    /\ UNCHANGED <<endpoint, request, response, besidesService>>

\* `else: html_content = await fetch_html(url_str)`: markup, or an exception.
FetchHtml ==
    /\ sv_pc = "fetch"
    /\ ~request.use_playwright
    /\ \/ html_content' = "fetched" /\ sv_pc' = "extract" /\ UNCHANGED sv_raised
       \/ sv_raised' = "FetchError" /\ sv_pc' = "except" /\ UNCHANGED html_content
    /\ UNCHANGED <<endpoint, request, response, besidesService>>

\* `extract_content(html_content)` and the building of the response; on
\* /analyze the analyzers run on the markup too (the plain-fetch branch there
\* skips extract_content).
ExtractAndRespond ==
    /\ sv_pc = "extract"
    /\ sv_pc' = "done"
    /\ response' = [status |-> 200, detail |-> html_content]
    /\ UNCHANGED <<endpoint, request, html_content, sv_raised, besidesService>>

\* `except Exception as e: raise HTTPException(status_code=500, detail=...)`
HandlerExcept ==
    /\ sv_pc = "except"
    /\ sv_pc' = "done"
    /\ response' = [status |-> 500, detail |-> sv_raised]
    /\ UNCHANGED <<endpoint, request, html_content, sv_raised, besidesService>>

NextService ==
    \/ CallRenderer
    \/ FetchHtml
    \/ ExtractAndRespond
    \/ HandlerExcept

SpecService == InitService /\ [][NextService]_vars

(* ------------------------------------------------------------------ *)
(* Text (app/scraper/helpers.py)                                      *)
(* ------------------------------------------------------------------ *)
\* A text is a sequence of tokens: a piece of a word (any string without
\* whitespace, Len(t) characters long), a space " " or a line break "\n".
\* Tabs, entities and control characters do not occur in the texts explored.
IsSpace(t) == t \in {" ", "\n"}

\* The concatenation of a sequence of sequences.
Flatten(ss) ==
    LET RECURSIVE Cat(_, _)
        Cat(lo, hi) == IF lo > hi THEN <<>>
                       ELSE IF lo = hi THEN ss[lo]
                       ELSE Cat(lo, (lo + hi) \div 2) \o Cat((lo + hi) \div 2 + 1, hi)
    IN Cat(1, Len(ss))

\* len(text)
CharCount(text) ==
    LET RECURSIVE Sum(_, _)
        Sum(lo, hi) == IF lo > hi THEN 0
                       ELSE IF lo = hi THEN Len(text[lo])
                       ELSE Sum(lo, (lo + hi) \div 2) + Sum((lo + hi) \div 2 + 1, hi)
    IN Sum(1, Len(text))

\* len(text.split())
WordCount(text) ==
    Cardinality({i \in 1..Len(text) : ~IsSpace(text[i]) /\ (i = 1 \/ IsSpace(text[i - 1]))})

\* text.strip()
Strip(text) ==
    LET RECURSIVE Lead(_)
        Lead(i) == IF i > Len(text) \/ ~IsSpace(text[i]) THEN i ELSE Lead(i + 1)
        RECURSIVE Trail(_)
        Trail(i) == IF i < 1 \/ ~IsSpace(text[i]) THEN i ELSE Trail(i - 1)
    IN SubSeq(text, Lead(1), Trail(Len(text)))

\* separator.join(texts)
Join(separator, texts) ==
    Flatten([i \in 1..Len(texts) |-> IF i = 1 THEN texts[i] ELSE separator \o texts[i]])

\* The index of the last token before i that is not whitespace, 0 if there is none.
RECURSIVE WordBefore(_, _)
WordBefore(text, i) ==
    IF i = 1 THEN 0 ELSE IF ~IsSpace(text[i - 1]) THEN i - 1 ELSE WordBefore(text, i - 1)

\* For every token that follows a word after some whitespace, that run of
\* whitespace; <<>> for the other tokens.
RunsOf(text) ==
    [i \in 1..Len(text) |->
        IF IsSpace(text[i]) \/ WordBefore(text, i) \in {0, i - 1} THEN <<>>
        ELSE SubSeq(text, WordBefore(text, i) + 1, i - 1)]

\* The text with the whitespace at both ends dropped and the run of whitespace
\* before token i replaced by seps[i].
Respace(text, seps) ==
    Flatten([i \in 1..Len(text) |-> IF IsSpace(text[i]) THEN <<>> ELSE seps[i] \o <<text[i]>>])

\* normalize_whitespace: `\n\s*\n\s*\n+` turns a run of whitespace holding three
\* line breaks or more into "\n\n"; the text is split at every "\n\n" (two
\* adjacent line breaks); inside a piece line breaks become spaces, spaces are
\* collapsed, the piece is stripped, and the pieces are joined with "\n\n".
normalize_whitespace(text) ==
    LET runs == RunsOf(text)
        IsBreak(run) ==
            \/ Cardinality({i \in 1..Len(run) : run[i] = "\n"}) >= 3
            \/ \E i \in 1..(Len(run) - 1) : run[i] = "\n" /\ run[i + 1] = "\n"
        Sep(run) == IF run = <<>> THEN <<>>
                    ELSE IF IsBreak(run) THEN <<"\n", "\n">> ELSE <<" ">>
    IN Respace(text, [i \in 1..Len(text) |-> Sep(runs[i])])

\* clean_text: `\n\s*\n` turns the part of a run of whitespace from its first
\* to its last line break into "\n\n" when it holds two or more; a lone line
\* break becomes a space; spaces are collapsed; the text is stripped.
clean_text(text) ==
    LET runs == RunsOf(text)
        Sep(run) ==
            IF run = <<>> THEN <<>>
            ELSE IF Cardinality({i \in 1..Len(run) : run[i] = "\n"}) >= 2
            THEN (IF run[1] = " " THEN <<" ">> ELSE <<>>) \o <<"\n", "\n">>
                 \o (IF run[Len(run)] = " " THEN <<" ">> ELSE <<>>)
            ELSE <<" ">>
    IN Respace(text, [i \in 1..Len(text) |-> Sep(runs[i])])

\* len(re.findall(r'[.!?]+(?:\s|$)', text)): sentence punctuation is a token of its own.
SentenceCount(text) ==
    Cardinality({i \in 1..Len(text) :
                    text[i] \in {".", "!", "?"} /\ (i = Len(text) \/ IsSpace(text[i + 1]))})

(* ------------------------------------------------------------------ *)
(* The parsed document (BeautifulSoup with lxml)                      *)
(* ------------------------------------------------------------------ *)
\* A node of the tree: an element (its name in `tag`, its class attribute in
\* `cls`, `hidden` when it carries hidden, aria-hidden="true" or a
\* display:none / visibility:hidden style, its children in `kids`), a text
\* node ("#text", its characters in `text`) or a comment ("#comment").
\* The elements explored carry no id and no role attribute.
El(tag, cls, hidden, kids) ==
    [tag |-> tag, cls |-> cls, hidden |-> hidden, kids |-> kids, text |-> <<>>]
Text(text) == [tag |-> "#text", cls |-> "", hidden |-> FALSE, kids |-> <<>>, text |-> text]
\* Python's None, where a node is expected
NoNode == [tag |-> "#none", cls |-> "", hidden |-> FALSE, kids |-> <<>>, text |-> <<>>]

\* Every node below n in document order, each with the name of its parent.
RECURSIVE Descendants(_)
Descendants(n) ==
    Flatten([i \in 1..Len(n.kids) |->
                <<[node |-> n.kids[i], parent |-> n.tag]>> \o Descendants(n.kids[i])])

\* n.find_all(tags), with each element's parent
find_all(n, tags) ==
    LET Named(d) == d.node.tag \in tags
    IN SelectSeq(Descendants(n), Named)

\* n.find(tags): the first match or None
find(n, tags) == IF find_all(n, tags) = <<>> THEN NoNode ELSE find_all(n, tags)[1].node

\* tag.get_text(): the text nodes below n run together (comments are left out)
get_text(n) ==
    LET texts == find_all(n, {"#text"})
    IN Flatten([i \in 1..Len(texts) |-> texts[i].node.text])

SKIP_TAGS == {"script", "style", "noscript", "meta", "link", "svg", "path", "canvas",
              "video", "audio", "source", "template", "iframe"}

\* CONTENT_SELECTORS, in priority order: a tag name, a class, a role or an id.
CONTENT_SELECTORS ==
    <<[by |-> "tag", v |-> "article"], [by |-> "role", v |-> "main"],
      [by |-> "tag", v |-> "main"], [by |-> "class", v |-> "entry-content"],
      [by |-> "class", v |-> "post-content"], [by |-> "class", v |-> "article-content"],
      [by |-> "class", v |-> "content-area"], [by |-> "class", v |-> "page-content"],
      [by |-> "class", v |-> "main-content"], [by |-> "class", v |-> "wp-block-post-content"],
      [by |-> "class", v |-> "elementor-widget-theme-post-content"],
      [by |-> "class", v |-> "et_pb_post_content"], [by |-> "id", v |-> "content"],
      [by |-> "class", v |-> "content"], [by |-> "class", v |-> "post"],
      [by |-> "class", v |-> "article"], [by |-> "class", v |-> "hentry"],
      [by |-> "class", v |-> "single-post"], [by |-> "class", v |-> "blog-post"]>>

\* soup.select_one(selector): the first element in document order that matches
select_one(soup, sel) ==
    LET Matches(d) == \/ sel.by = "tag" /\ d.node.tag = sel.v
                      \/ sel.by = "class" /\ d.node.cls = sel.v
        found == SelectSeq(Descendants(soup), Matches)
    IN IF found = <<>> THEN NoNode ELSE found[1].node

\* The tag names, and the class values of the explored elements that a
\* NOISE_PATTERNS entry matches when searched in "<classes> <id>" lowercased, the
\* id being empty: `^sidebar`, `^widget`, `^menu`, `comment`, `social`, `share`.
_is_noise_element(tag) ==
    \/ tag.tag \in {"nav", "footer", "aside"}
    \/ tag.cls \in {"sidebar", "widget", "menu", "comments", "social", "share"}

_is_hidden(tag) == tag.hidden

\* `for selector in CONTENT_SELECTORS: candidate = soup.select_one(selector);
\*  if candidate: main_content = candidate; break` (a Tag is always true)
main_content(soup) ==
    LET hits == {i \in 1..Len(CONTENT_SELECTORS) :
                    select_one(soup, CONTENT_SELECTORS[i]) # NoNode}
    IN IF hits = {} THEN NoNode
       ELSE select_one(soup, CONTENT_SELECTORS[CHOOSE i \in hits : \A j \in hits : i <= j])

\* A slip the empty-document case would expose: no fallback to the document.
search_area_of_body(soup) ==
    IF main_content(soup) # NoNode THEN main_content(soup) ELSE find(soup, {"body"})

\* `search_area = main_content or soup.body or soup`
search_area_of(soup) ==
    IF main_content(soup) # NoNode THEN main_content(soup)
    ELSE IF find(soup, {"body"}) # NoNode THEN find(soup, {"body"})
    ELSE soup

BlockTags == {"p", "div", "h1", "h2", "h3", "h4", "h5", "h6", "li", "tr", "blockquote",
              "section", "article"}

\* The inner `walk(node)` of walk_text_nodes: the list `texts` after the children
\* of node have been visited. A text is kept when, stripped, it is longer than
\* one character; a "\n" is appended after a block element unless the list is
\* empty or ends with one.
RECURSIVE walk(_, _, _)
walk(node, skip_noise, texts) ==
    LET RECURSIVE Children(_, _)
        Children(i, acc) ==
            IF i > Len(node.kids) THEN acc
            ELSE LET child == node.kids[i]
                     after == walk(child, skip_noise, acc)
                 IN IF child.tag = "#text"
                    THEN Children(i + 1, IF CharCount(Strip(child.text)) > 1
                                         THEN Append(acc, Strip(child.text)) ELSE acc)
                    ELSE IF \/ child.tag = "#comment"
                            \/ child.tag \in SKIP_TAGS
                            \/ _is_hidden(child)
                            \/ skip_noise /\ _is_noise_element(child)
                    THEN Children(i + 1, acc)
                    ELSE Children(i + 1,
                                  IF /\ child.tag \in BlockTags
                                     /\ after # <<>>
                                     /\ after[Len(after)] # <<"\n">>
                                  THEN Append(after, <<"\n">>) ELSE after)
    IN Children(1, texts)

walk_text_nodes(element, skip_noise) == walk(element, skip_noise, <<>>)

\* `normalize_whitespace(' '.join(walk_text_nodes(area, skip_noise)))`
dom_walk_text(area, skip_noise) ==
    normalize_whitespace(Join(<<" ">>, walk_text_nodes(area, skip_noise)))

\* A markup string, as what the parser and the regular expressions of the
\* strategies make of it: the tree (NoNode for the empty string), and the texts
\* that extract_gutenberg_content, extract_from_data_attributes and
\* extract_from_json_ld find in it.
Markup(soup, gutenberg, data_attrs, json_ld) ==
    [soup |-> soup, gutenberg |-> gutenberg, data_attrs |-> data_attrs, json_ld |-> json_ld]

\* The `results` list of extract_full_text(html, include_noise), html being
\* `markup`: the texts of the DOM walk, of the Gutenberg blocks, the data
\* attributes and the JSON-LD when they are not empty, and of the whole body
\* when there is one.
candidates(markup, include_noise) ==
    LET body == find(markup.soup, {"body"})
    IN <<dom_walk_text(search_area_of(markup.soup), ~include_noise)>>
       \o (IF markup.gutenberg # <<>> THEN <<markup.gutenberg>> ELSE <<>>)
       \o (IF markup.data_attrs # <<>> THEN <<markup.data_attrs>> ELSE <<>>)
       \o (IF markup.json_ld # <<>> THEN <<markup.json_ld>> ELSE <<>>)
       \o (IF body # NoNode THEN <<dom_walk_text(body, FALSE)>> ELSE <<>>)

\* A slip the order of the strategies would expose: a later candidate with as
\* many words replaces the earlier one.
better_or_tied(word_count_, best_word_count) == word_count_ >= best_word_count

\* `if word_count > best_word_count:`
better(word_count_, best_word_count) == word_count_ > best_word_count

\* extract_full_text(html, include_noise): '' for an empty html, else the best
\* of the candidates, `best_text` starting as ''.
extract_full_text(markup, include_noise) ==
    IF markup.soup = NoNode THEN <<>>
    ELSE LET results == candidates(markup, include_noise)
             RECURSIVE Best(_, _)
             Best(i, best_text) ==
                 IF i > Len(results) THEN best_text
                 ELSE Best(i + 1, IF better(WordCount(results[i]), WordCount(best_text))
                                  THEN results[i] ELSE best_text)
         IN Best(1, <<>>)

\* dedupe(items): the first occurrence of every item, in order
dedupe(items) ==
    Flatten([i \in 1..Len(items) |->
                IF \E j \in 1..(i - 1) : items[j] = items[i] THEN <<>> ELSE <<items[i]>>])

\* The cleaned texts of the elements of `found` (a find_all result).
TextsOf(found) == [i \in 1..Len(found) |-> clean_text(get_text(found[i].node))]

_extract_headings(soup) ==
    LET found == find_all(soup, {"h1", "h2", "h3", "h4", "h5", "h6"})
        heads == [i \in 1..Len(found) |->
                     [tag |-> found[i].node.tag, text |-> TextsOf(found)[i]]]
        Kept(h) == CharCount(h.text) > 1
    IN SelectSeq(heads, Kept)

\* <p> texts longer than 10 characters, then the texts longer than 30 of the
\* <div>s with no block element below them, each text once.
_extract_paragraphs(soup) ==
    LET Long(text) == CharCount(text) > 10
        Longer(text) == CharCount(text) > 30
        Leaf(d) == find(d.node, {"p", "div", "ul", "ol", "table", "article", "section"}) = NoNode
    IN dedupe(SelectSeq(TextsOf(find_all(soup, {"p"})), Long)
              \o SelectSeq(TextsOf(SelectSeq(find_all(soup, {"div"}), Leaf)), Longer))

\* `for li in list_tag.find_all('li', recursive=False)`: the cleaned texts of
\* the <li> children
ItemsOf(list_tag) ==
    LET Li(n) == n.tag = "li"
        lis == SelectSeq(list_tag.kids, Li)
    IN [i \in 1..Len(lis) |-> clean_text(get_text(lis[i]))]

_extract_lists(soup) ==
    LET Top(d) == d.parent \notin {"li", "ul", "ol"}
        found == SelectSeq(find_all(soup, {"ul", "ol"}), Top)
        NonEmpty(text) == text # <<>>
        lists == [i \in 1..Len(found) |->
                     [tag |-> found[i].node.tag,
                      items |-> SelectSeq(ItemsOf(found[i].node), NonEmpty)]]
        Kept(l) == l.items # <<>>
    IN SelectSeq(lists, Kept)

\* A slip the header row would expose: the rows are always looked for in the whole table.
rows_container_table(table) == table

\* `tbody = table.find('tbody') or table`
rows_container(table) ==
    IF find(table, {"tbody"}) # NoNode THEN find(table, {"tbody"}) ELSE table

_extract_tables(soup) ==
    LET Table(table) ==
            LET thead == find(table, {"thead"})
                headers == IF thead # NoNode THEN TextsOf(find_all(thead, {"th"})) ELSE <<>>
                Row(tr) == TextsOf(find_all(tr, {"td", "th"}))
                Kept(d) == /\ Row(d.node) # <<>>
                           /\ ~(headers = <<>> /\ d.node = find(table, {"tr"}))
                trs == SelectSeq(find_all(rows_container(table), {"tr"}), Kept)
            IN [headers |-> headers, rows |-> [i \in 1..Len(trs) |-> Row(trs[i].node)]]
        found == find_all(soup, {"table"})
        NonEmpty(t) == t.headers # <<>> \/ t.rows # <<>>
    IN SelectSeq([i \in 1..Len(found) |-> Table(found[i].node)], NonEmpty)

_extract_blockquotes(soup) ==
    LET found == find_all(soup, {"blockquote"})
        quotes == [i \in 1..Len(found) |->
                      [text |-> TextsOf(found)[i],
                       citation |-> IF find(found[i].node, {"cite"}) # NoNode
                                    THEN clean_text(get_text(find(found[i].node, {"cite"})))
                                    ELSE <<>>]]
        Kept(q) == q.text # <<>>
    IN SelectSeq(quotes, Kept)

_extract_emphasis(soup) ==
    LET NonEmpty(text) == text # <<>>
    IN [strong |-> dedupe(SelectSeq(TextsOf(find_all(soup, {"strong", "b"})), NonEmpty)),
        em |-> dedupe(SelectSeq(TextsOf(find_all(soup, {"em", "i"})), NonEmpty))]

_extract_elements_in_order(soup) ==
    LET Outer(d) == d.parent \notin {"h1", "h2", "h3", "h4", "h5", "h6", "p", "blockquote"}
        found == SelectSeq(find_all(soup, {"h1", "h2", "h3", "h4", "h5", "h6", "p", "ul",
                                           "ol", "blockquote", "table"}), Outer)
        TypeOf(tag) == IF tag \in {"ul", "ol"} THEN "list"
                       ELSE IF tag \in {"h1", "h2", "h3", "h4", "h5", "h6"} THEN "heading"
                       ELSE tag
        elements == [i \in 1..Len(found) |->
                        [type |-> TypeOf(found[i].node.tag), tag |-> found[i].node.tag,
                         text |-> TextsOf(found)[i],
                         items |-> IF found[i].node.tag \in {"ul", "ol"}
                                   THEN ItemsOf(found[i].node) ELSE <<>>]]
        Kept(e) == CharCount(e.text) >= 3
    IN SelectSeq(elements, Kept)

\* `title = soup.find('title')`, else `h1 = soup.find('h1')`, else ''
_extract_title(soup) ==
    IF find(soup, {"title"}) # NoNode THEN clean_text(get_text(find(soup, {"title"})))
    ELSE IF find(soup, {"h1"}) # NoNode THEN clean_text(get_text(find(soup, {"h1"})))
    ELSE <<>>

\* What extract_content returns (the serialized `html` fields and the meta
\* description are left out).
Document(headings, paragraphs, lists, tables, quotes, emphasis, text, in_order, title, counts) ==
    [kind |-> "document", headings |-> headings, paragraphs |-> paragraphs, lists |-> lists,
     tables |-> tables, blockquotes |-> quotes, emphasis |-> emphasis,
     full_text |-> text, elements_in_order |-> in_order,
     metadata |-> [title |-> title, word_count |-> counts[1], character_count |-> counts[2],
                   sentence_count |-> counts[3]]]

_empty_result ==
    Document(<<>>, <<>>, <<>>, <<>>, <<>>, [strong |-> <<>>, em |-> <<>>], <<>>, <<>>, <<>>,
             <<0, 0, 0>>)

\* `for tag in soup.find_all(['script', 'style', 'noscript']): tag.decompose()`
RECURSIVE decompose(_, _)
decompose(n, tags) ==
    LET Stays(k) == k.tag \notin tags
        kept == SelectSeq(n.kids, Stays)
    IN [n EXCEPT !.kids = [i \in 1..Len(kept) |-> decompose(kept[i], tags)]]

(* ------------------------------------------------------------------ *)
(* extract_content                                                    *)
(* ------------------------------------------------------------------ *)
\* `if len(full_text.split()) < 100`
RecoveryGate == 100

\* A slip the gate's edge would expose: a text of exactly 100 words is retried too.
needs_recovery_lax(text) == WordCount(text) <= RecoveryGate

\* `if len(full_text.split()) < 100:`
needs_recovery(text) == WordCount(text) < RecoveryGate

\* `len(full_text_with_noise.split()) > len(full_text.split()) * 1.5`
prefers(with_noise, text) == 2 * WordCount(with_noise) > 3 * WordCount(text)

\* A slip the statistics would expose: they are taken from the text as it was
\* before the recovery step.
stats_text_stale(first_text, final_text) == first_text

\* `word_count = len(full_text.split())` and the two counts after it read the
\* final full_text, not the text of the first extraction.
stats_text(first_text, final_text) == final_text

\* n words separated by single spaces
Words(n, w) == [i \in 1..(IF n = 0 THEN 0 ELSE 2 * n - 1) |-> IF i % 2 = 1 THEN w ELSE " "]

\* <html><body>...</body></html> as parsed
Page(kids) == El("[document]", "", FALSE, <<El("html", "", FALSE, <<El("body", "", FALSE, kids)>>)>>)

\* <html></html> as parsed: lxml adds no body
NoBodyPage == El("[document]", "", FALSE, <<El("html", "", FALSE, <<>>)>>)

Nav == El("nav", "", FALSE, <<Text(<<"Home", " ", "About", " ", "Contact">>)>>)
Article(n) == El("article", "", FALSE, <<El("p", "", FALSE, <<Text(Words(n, "lorem"))>>)>>)

\* The elements a body is put together from.
Blocks ==
    {Nav,
     Article(PassageWords),
     El("article", "", FALSE, <<Text(<<"tiny">>)>>),
     El("div", "entry-content", FALSE, <<El("p", "", FALSE, <<Text(Words(21, "lorem"))>>)>>),
     El("div", "sidebar", FALSE, <<Text(Words(4, "ad"))>>),
     El("h2", "", FALSE, <<Text(<<"\n", " ", "Heading", "\n">>)>>),
     El("p", "", FALSE, <<Text(<<"\n", " ", "one", " ", "two", " ">>),
                          El("b", "", FALSE, <<Text(<<"bold">>)>>),
                          Text(<<" ", "three", ".", "\n">>)>>),
     El("p", "", FALSE, <<Text(<<"x">>)>>),
     El("script", "", FALSE, <<Text(<<"var", " ", "x">>)>>)}

\* A main container of e words that holds a falsely flagged container of e more
\* words, the whole inside a hidden wrapper.
RecoveryPage(e) ==
    Page(<<El("div", "", TRUE,
              <<El("article", "", FALSE,
                   <<El("p", "", FALSE, <<Text(Words(e, "lorem"))>>),
                     El("div", "sidebar", FALSE, <<Text(Words(e, "more"))>>)>>)>>)>>)

\* <table><thead><tr>h <th></tr></thead><tbody>r <tr> of c <td></tbody></table>
TableOf(h, r, c) ==
    El("table", "", FALSE,
       <<El("thead", "", FALSE,
            <<El("tr", "", FALSE, [i \in 1..h |-> El("th", "", FALSE, <<Text(<<"head">>)>>)])>>),
         El("tbody", "", FALSE,
            [j \in 1..r |->
                El("tr", "", FALSE, [i \in 1..c |-> El("td", "", FALSE, <<Text(<<"cell">>)>>)])])>>)

\* Bodies with one structure each.
\* <table><tr>c <th></tr>r <tr> of c <td></table>: lxml adds no tbody.
\* <ul><li>one</li><li>two ...</li></ul>, the second item holding what `inner` is.
\* <ul><li>one</li><ul><li>inner</li></ul></ul>: a list that is a child of a list.
\* <blockquote><p>quoted</p></blockquote>
\* <head>[<title>][<meta property="og:title" content=...>]</head> over a body of
\* an <h2> and an <h1>, each of the four there or not.
StructurePages ==
    LET Cells(tag, c, word) == [i \in 1..c |-> El(tag, "", FALSE, <<Text(<<word>>)>>)]
        HeadlessTable(r, c) ==
            El("table", "", FALSE,
               <<El("tr", "", FALSE, Cells("th", c, "head"))>>
               \o [j \in 1..r |-> El("tr", "", FALSE, Cells("td", c, "cell"))])
        Item(word) == El("li", "", FALSE, <<Text(<<word>>)>>)
        ListAround(inner) ==
            El("ul", "", FALSE, <<Item("one"), El("li", "", FALSE, <<Text(<<"two", " ">>)>> \o inner)>>)
        InnerList == El("ol", "", FALSE, <<Item("inner")>>)
        Meta(property, content) ==
            [tag |-> "meta", cls |-> "", hidden |-> FALSE, kids |-> <<>>, text |-> <<>>,
             property |-> property, content |-> content]
        Headed(head, body) ==
            El("[document]", "", FALSE,
               <<El("html", "", FALSE,
                    <<El("head", "", FALSE, head), El("body", "", FALSE, body)>>)>>)
        Some(there, node) == IF there THEN <<node>> ELSE <<>>
    IN {Page(<<HeadlessTable(r, c)>>) : r \in 0..MaxRows, c \in 1..MaxCells}
       \cup {Page(<<ListAround(<<>>)>>), Page(<<ListAround(<<InnerList>>)>>),
             Page(<<ListAround(<<El("div", "", FALSE, <<InnerList>>)>>)>>),
             Page(<<El("ul", "", FALSE, <<Item("one"), El("ul", "", FALSE, <<Item("inner")>>)>>)>>),
             Page(<<El("blockquote", "", FALSE, <<El("p", "", FALSE, <<Text(<<"quoted">>)>>)>>)>>)}
       \cup {Headed(Some(t, El("title", "", FALSE, <<Text(<<"Site", " ", "name">>)>>))
                    \o Some(og, Meta("og:title", <<"Shared", " ", "title">>)),
                    Some(h2, El("h2", "", FALSE, <<Text(<<"Sub", " ", "heading">>)>>))
                    \o Some(h1, El("h1", "", FALSE, <<Text(<<"Main", " ", "heading">>)>>))) :
                t, og, h2, h1 \in BOOLEAN}

\* A page of four words in its DOM whose Gutenberg comments, data attributes
\* and JSON-LD hold g, d and j words.
StrategyPage(g, d, j) ==
    Markup(Page(<<El("p", "", FALSE, <<Text(Words(4, "lorem"))>>)>>),
           Words(g, "block"), Words(d, "data"), Words(j, "ld"))

\* The markup extract_content is explored for: the empty string, <html></html>,
\* every body of up to MaxBlocks blocks, the recovery pages around the gate,
\* the tables, the pages of one structure, a page whose Gutenberg comments hold more text than its DOM, one
\* whose Gutenberg comments hold as much as its whole body, and the pages whose
\* other strategies yield up to MaxStrategyWords words each.
Markups ==
    {Markup(NoNode, <<>>, <<>>, <<>>), Markup(NoBodyPage, <<>>, <<>>, <<>>)}
    \cup {Markup(Page(kids), <<>>, <<>>, <<>>) :
             kids \in UNION {[1..n -> Blocks] : n \in 0..MaxBlocks}}
    \cup {Markup(RecoveryPage(e), <<>>, <<>>, <<>>) :
             e \in {RecoveryGate \div 2, RecoveryGate - 1, RecoveryGate}}
    \cup {Markup(Page(<<TableOf(h, r, c)>>), <<>>, <<>>, <<>>) :
             h \in 1..MaxHeaders, r \in 0..MaxRows, c \in 1..MaxCells}
    \cup {Markup(Page(<<Nav>>), Words(4, "block"), <<>>, <<>>)}
    \cup {Markup(Page(<<Nav>>), Words(3, "block"), <<>>, <<>>)}
    \cup {Markup(soup, <<>>, <<>>, <<>>) : soup \in StructurePages}
    \cup {StrategyPage(g, d, j) : g, d, j \in {n \in 0..MaxStrategyWords : n % 2 = 0}}

InitExtract ==
    /\ InitRender
    /\ Quiet({"extract"})
    /\ html \in Markups
    /\ x_pc = "start"
    /\ search_area = NoNode
    /\ full_text = <<>>
    /\ content_data = [kind |-> "none"]
    /\ path = "none"

\* `if not html: return _empty_result()`
EmptyMarkup ==
    /\ x_pc = "start"
    /\ html.soup = NoNode
    /\ content_data' = _empty_result
    /\ path' = "empty"
    /\ x_pc' = "done"
    /\ UNCHANGED <<html, search_area, full_text, besidesExtract>>

\* Parse, drop script/style/noscript, find the main content.
Localize ==
    /\ x_pc = "start"
    /\ html.soup # NoNode
    /\ search_area' = search_area_of(decompose(html.soup, {"script", "style", "noscript"}))
    /\ x_pc' = "full_text"
    /\ UNCHANGED <<html, full_text, content_data, path, besidesExtract>>

\* `full_text = extract_full_text(html, include_noise=False)`
ExtractFullText ==
    /\ x_pc = "full_text"
    /\ full_text' = extract_full_text(html, FALSE)
    /\ x_pc' = "recover"
    /\ UNCHANGED <<html, search_area, content_data, path, besidesExtract>>

\* `if len(full_text.split()) < 100:` retry with the noise included and keep
\* that text if it has more than 1.5 times the words.
Recover ==
    /\ x_pc = "recover"
    /\ IF needs_recovery(full_text) /\ prefers(extract_full_text(html, TRUE), full_text)
       THEN full_text' = extract_full_text(html, TRUE) /\ path' = "substituted"
       ELSE full_text' = full_text /\ path' = "kept"
    /\ x_pc' = "structure"
    /\ UNCHANGED <<html, search_area, content_data, besidesExtract>>

\* The structured elements of the search area and the statistics of the text;
\* find_all on None would raise AttributeError.
Structure ==
    /\ x_pc = "structure"
    /\ content_data' =
          IF search_area = NoNode THEN [kind |-> "raised"]
          ELSE LET text == stats_text(extract_full_text(html, FALSE), full_text)
                   soup == decompose(html.soup, {"script", "style", "noscript"})
               IN Document(_extract_headings(search_area), _extract_paragraphs(search_area),
                           _extract_lists(search_area), _extract_tables(search_area),
                           _extract_blockquotes(search_area), _extract_emphasis(search_area),
                           full_text, _extract_elements_in_order(search_area),
                           _extract_title(soup),
                           <<WordCount(text), CharCount(text), SentenceCount(text)>>)
    /\ x_pc' = "done"
    /\ UNCHANGED <<html, search_area, full_text, path, besidesExtract>>

NextExtract ==
    \/ EmptyMarkup
    \/ Localize
    \/ ExtractFullText
    \/ Recover
    \/ Structure

SpecExtract == InitExtract /\ [][NextExtract]_vars

(* ------------------------------------------------------------------ *)
(* /analyze: calculate_overall_score (app/utils/scorer.py) and         *)
(* generate_recommendations (app/main.py)                             *)
(* ------------------------------------------------------------------ *)
\* What the six analyzers may report: for each category a list of issues, each
\* with its impact and its recommendation text. The lists are picked for the
\* scores 100, 70, 65, 50, 45 and 0 ("info" is an impact the scorer does not
\* know); the URL analyzer reports one issue of low impact.
ScoreInputs ==
    LET Issue(category, impact) ==
            [impact |-> impact, recommendation |-> "Fix " \o category \o " (" \o impact \o ")"]
        IssuesOf(category, impacts) == [i \in 1..Len(impacts) |-> Issue(category, impacts[i])]
        ImpactLists ==
            {<<>>, <<"high", "info">>, <<"high", "medium">>, <<"high", "high">>,
             <<"high", "high", "low">>, [i \in 1..MaxIssues |-> "high"]}
    IN {[category \in {"meta", "headings", "images", "url", "schema", "content"} |->
            IF category = "url" THEN IssuesOf(category, <<"low">>)
            ELSE IssuesOf(category, pick[category])] :
           pick \in [{"meta", "headings", "images", "schema", "content"} -> ImpactLists]}

InitScore ==
    /\ InitRender
    /\ Quiet({"score"})
    /\ sc_pc = "start"
    /\ sc_results \in ScoreInputs
    /\ scores = <<>>
    /\ recommendations = <<>>

\* `penalty = {'high': 25, 'medium': 10, 'low': 5}.get(impact, 5)`
penalty(impact) == IF impact = "high" THEN 25 ELSE IF impact = "medium" THEN 10 ELSE 5

\* calculate_overall_score(results): for each category 100 less the penalties of
\* its issues, not below 0 (the weighted `overall` is left out). The keys are
\* meta, headings, images, url, schema and content.
calculate_overall_score(results_) ==
    LET RECURSIVE Deduct(_, _)
        Deduct(issues, base_score) ==
            IF issues = <<>> THEN base_score
            ELSE Deduct(Tail(issues), base_score - penalty(Head(issues).impact))
        Max(a, b) == IF a > b THEN a ELSE b
    IN [category \in {"meta", "headings", "images", "url", "schema", "content"} |->
           IF category \in DOMAIN results_ THEN Max(0, Deduct(results_[category], 100)) ELSE 0]

\* generate_recommendations(issues, scores): the recommendations of the first
\* five issues of high impact, then one sentence for each score under its
\* threshold, `scores.get(key, 0)` being 0 for a key that is not there; each
\* text once.
generate_recommendations(issues, score_dict) ==
    LET High(issue) == issue.impact = "high"
        high_priority == SelectSeq(issues, High)
        shown == IF Len(high_priority) > 5 THEN 5 ELSE Len(high_priority)
        Get(key) == IF key \in DOMAIN score_dict THEN score_dict[key] ELSE 0
        When(condition, text) == IF condition THEN <<text>> ELSE <<>>
    IN dedupe([i \in 1..shown |-> high_priority[i].recommendation]
              \o When(Get("meta") < 70,
                      "Improve meta tags (title and description) for better SERP appearance")
              \o When(Get("headings") < 70,
                      "Fix heading structure to improve content hierarchy")
              \o When(Get("images") < 70,
                      "Add descriptive alt text to all images for accessibility and SEO")
              \o When(Get("schema") < 50,
                      "Implement structured data (Schema.org) for rich results")
              \o When(Get("content_quality") < 70,
                      "Improve content quality and readability"))

\* `scores = calculate_overall_score({'meta': meta_result, ...})`
CalculateScores ==
    /\ sc_pc = "start"
    /\ scores' = calculate_overall_score(sc_results)
    /\ sc_pc' = "scored"
    /\ UNCHANGED <<sc_results, recommendations, besidesScore>>

\* `all_issues` is put together in the order meta, headings, images, url,
\* schema, content; the response carries `recommendations[:10]`.
GenerateRecommendations ==
    /\ sc_pc = "scored"
    /\ LET all_issues == sc_results["meta"] \o sc_results["headings"] \o sc_results["images"]
                         \o sc_results["url"] \o sc_results["schema"] \o sc_results["content"]
           generated == generate_recommendations(all_issues, scores)
       IN recommendations' = SubSeq(generated, 1, IF Len(generated) > 10 THEN 10 ELSE Len(generated))
    /\ sc_pc' = "done"
    /\ UNCHANGED <<sc_results, scores, besidesScore>>

NextScore ==
    \/ CalculateScores
    \/ GenerateRecommendations

SpecScore == InitScore /\ [][NextScore]_vars

(* ================================================================== *)
(* Claims                                                             *)
(* ================================================================== *)
Finished(p) == pc[p] = "done"
Live == {b \in BrowserIds : bstate[b] = "live"}
IsPrefix(s, t) == Len(s) <= Len(t) /\ \A i \in 1..Len(s) : s[i] = t[i]

\* C1: every call has closed the context and the page it created by the time it
\* is over, on every exit path, the one where closing the page raises included
\* (a page or context whose own close() raised is not held against the call).
C1_SessionClosedOnEveryExit ==
    \A p \in Calls :
        Finished(p) /\ raisedIn[p] # "context.close" =>
            /\ cstate[p] # "open"
            /\ raisedIn[p] # "page.close" => pstate[p] # "open"

\* C2: when page.goto raises, the next thing the call does is fail: it enters
\* `finally` with the navigation error in flight and runs no later phase.
C2_NavigationFailureIsFatal ==
    [][\A p \in Calls :
          pc[p] = "goto_except" /\ pc'[p] # pc[p] =>
              /\ pc'[p] \in {"close_page", "close_context", "done"}
              /\ raisedIn'[p] = "goto"]_vars

\* C3: no exception raised inside the selector probe, the hydration wait, the
\* consent click or the progressive scroll reaches the caller.
C3_SoftPhasesNeverPropagate ==
    \A p \in Calls : raisedIn[p] \notin {"selectors", "hydration", "cookies", "scroll"}

\* C4: at no time do two launched browser processes that nobody closed exist together.
C4_SingleBrowserProcess == Cardinality(Live) <= 1

\* C5: a call holds only the context and the page it created itself, and a
\* context or page is driven and closed by no call but its creator.
C5_SessionsAreIsolated ==
    /\ \A p \in Calls : context[p] \in {None, p} /\ page[p] \in {None, p}
    /\ \A c \in ContextIds : ctxUsedBy[c] \subseteq {c}
    /\ \A g \in PageIds : pageUsedBy[g] \subseteq {g}
    /\ \A g \in PageIds : pstate[g] # "none" => pcontext[g] = g

\* C5 witness: two calls are in flight together, each driving its own open page
\* in its own open context of the same browser.
C5_Witness ==
    \E p, q \in Calls :
        /\ p # q
        /\ pstate[p] = "open" /\ pstate[q] = "open"
        /\ cstate[p] = "open" /\ cstate[q] = "open"
        /\ cbrowser[p] = cbrowser[q]
        /\ pageUsedBy[p] = {p} /\ pageUsedBy[q] = {q}

\* C6: the scroll loop has run at most N + stability_checks iterations, N being
\* the last iteration at which the measured height changed, and never more than
\* max_scrolls iterations, whatever heights are measured.
C6_ScrollLoopBound ==
    /\ scroll_count <= lastChange + stability_checks
    /\ scroll_count <= max_scrolls

\* C6 witness: the loop at the call site's arguments ended by stability, exactly
\* stability_checks iterations after a height change that was not the first iteration.
C6_Witness ==
    /\ s_pc = "returned"
    /\ max_scrolls = CallMaxScrolls /\ stability_checks = CallStabilityChecks
    /\ lastChange >= 2
    /\ scroll_count = lastChange + stability_checks
    /\ scroll_count < max_scrolls

\* C7: the phases a call has started are an initial part of: navigate, selector
\* probe, hydration wait, consent dismissal, scroll, word-count wait, capture.
PhaseOrder == <<"goto", "selectors", "hydration", "cookies", "scroll", "wait_content",
                "content">>
C7_PhasesInOrder == \A p \in Calls : IsPrefix(ran[p], PhaseOrder)

\* C7 witness: a call went through all seven phases and returned markup.
C7_Witness == \E p \in Calls : ran[p] = PhaseOrder /\ result[p].kind = "html"

\* C8: a call that returns markup flags it low-confidence exactly when the
\* final word count is below 50.
C8_LowWordCountIsFlagged ==
    [][\A p \in Calls :
          ~Finished(p) /\ Finished(p)' /\ result'[p].kind = "html" =>
              (result'[p].low_confidence <=> final_word_count[p] < LowWordCount)]_vars

\* C9: a call leaves _get_browser holding a connected browser; it takes the
\* shared one only when that is set and connected, and otherwise starts a
\* launch, whose browser is a new one.
C9_BrowserIsLiveWhenObtained ==
    [][\A p \in Calls :
          /\ pc[p] = "idle" /\ pc'[p] # "idle" =>
                IF _browser = None \/ bstate[_browser] # "live"
                THEN pc'[p] = "start"
                ELSE pc'[p] = "new_context" /\ browser'[p] = _browser
          /\ pc[p] = "launch" /\ pc'[p] = "new_context" => bstate[browser'[p]] = "none"
          /\ pc[p] # "new_context" /\ pc'[p] = "new_context" =>
                bstate'[browser'[p]] = "live"]_vars

\* C9 witness: the shared browser died, and a later call is about to create its
\* context in a browser it launched itself, which is connected and is the shared one.
C9_Witness ==
    \E p \in Calls, b \in BrowserIds :
        /\ bstate[b] = "dead" /\ b # p
        /\ pc[p] = "new_context" /\ browser[p] = p
        /\ bstate[p] = "live" /\ _browser = p
        /\ pc[b] = "done"

\* C10: a step of a render call closes no browser, stops no driver and leaves the
\* shared handle alone while it refers to a live browser.
C10_RenderLeavesBrowserAlone ==
    [][pc' # pc =>
          /\ \A b \in BrowserIds : bstate'[b] = "closed" => bstate[b] = "closed"
          /\ \A d \in DriverIds : dstate'[d] = "stopped" => dstate[d] = "stopped"
          /\ _browser # None /\ bstate[_browser] = "live" => _browser' = _browser]_vars

\* C19: a pass of the scroll loop adds one to the stability counter when the
\* height it measures equals the previous height and resets the counter to zero
\* when the height has grown; the counter never exceeds stability_checks and
\* scroll_count never exceeds max_scrolls; a pass runs only while neither has
\* reached its limit, and the loop is left past its end only when one has.
C19_StabilityCounter ==
    [][/\ stable_count <= stability_checks /\ stable_count' <= stability_checks
       /\ scroll_count <= max_scrolls /\ scroll_count' <= max_scrolls
       /\ scroll_count' # scroll_count =>
             /\ scroll_count' = scroll_count + 1
             /\ stable_count < stability_checks /\ scroll_count < max_scrolls
             /\ measured' = last_height => stable_count' = stable_count + 1
             /\ measured' > last_height => stable_count' = 0
       /\ s_pc = "loop" /\ s_pc' = "returned" =>
             stable_count = stability_checks \/ scroll_count = max_scrolls
       /\ s_pc = "loop" /\ (stable_count = stability_checks \/ scroll_count = max_scrolls) =>
             scroll_count' = scroll_count /\ stable_count' = stable_count]_vars

\* C19 witness: the counter went up, was reset by a taller page, went up again to
\* stability_checks, and the loop was left before max_scrolls passes.
C19_Witness ==
    /\ s_pc = "returned"
    /\ stability_checks = 2 /\ stable_count = stability_checks
    /\ lastChange = 2 /\ measured = MaxHeight
    /\ scroll_count = 4 /\ scroll_count < max_scrolls

\* C20: the consent selectors are probed in list order, each at most once; at
\* most one click succeeds, it is on the selector probed last, and the function
\* has then returned; a selector that raised is only skipped, so a call that
\* returns without a click has probed the whole list.
C20_AtMostOneConsentClick ==
    /\ \A i \in 1..Len(tried) : tried[i] = i
    /\ Len(tried) <= Len(COOKIE_CONSENT_SELECTORS)
    /\ ck_pc = "loop" => selector = Len(tried) + 1 /\ clicked = <<>>
    /\ Len(clicked) <= 1
    /\ clicked # <<>> =>
          /\ ck_pc = "returned"
          /\ clicked[1] = tried[Len(tried)]
          /\ clicked[1] \notin skipped
    /\ ck_pc = "returned" /\ clicked = <<>> => Len(tried) = Len(COOKIE_CONSENT_SELECTORS)
    /\ \A k \in skipped : \E i \in 1..Len(tried) : tried[i] = k

\* C20 witness: two selectors raised and were skipped, others matched nothing,
\* and the first selector found visible was clicked, after which the call
\* returned with later selectors never probed.
C20_Witness ==
    /\ ck_pc = "returned"
    /\ skipped = {1, 3}
    /\ clicked = <<5>>
    /\ tried = <<1, 2, 3, 4, 5>>

\* C11: a request that gives only a url is rendered: the service's call of the
\* renderer raises nothing of its own, and once the renderer has returned markup
\* the request is answered with a success built from that markup.
C11_DefaultRequestIsRendered ==
    request = DefaultRequest /\ sv_pc # "off" =>
        /\ sv_raised # "TypeError"
        /\ sv_pc = "done" /\ sv_raised = "none" =>
              response.status = 200 /\ response.detail = "rendered"

C13_WordCountMatchesFullText ==
    x_pc = "done" /\ content_data.kind = "document" =>
        /\ path \in {"empty", "kept", "substituted"}
        /\ content_data.metadata.word_count = WordCount(content_data.full_text)

\* C13 witness: the noise-included text replaced a shorter noise-excluded one
\* and the count is that of the replacement.
C13_Witness ==
    /\ x_pc = "done"
    /\ path = "substituted"
    /\ content_data.metadata.word_count > WordCount(extract_full_text(html, FALSE))
    /\ WordCount(extract_full_text(html, FALSE)) > 0

\* s occurs in t as a run of consecutive tokens
Contains(t, s) == \E k \in 0..(Len(t) - Len(s)) : SubSeq(t, k + 1, k + Len(s)) = s

\* C14: for a body made of a <nav> with text and an <article> with the passage,
\* the returned full_text holds the whole passage and no word of the <nav>.
C14_NavTextIsLeftOut ==
    /\ x_pc = "done"
    /\ html.soup \in {Page(<<Nav, Article(PassageWords)>>), Page(<<Article(PassageWords), Nav>>)}
    => /\ Contains(content_data.full_text, Words(PassageWords, "lorem"))
       /\ \A i \in 1..Len(content_data.full_text) :
              content_data.full_text[i] \notin {"Home", "About", "Contact"}

\* C15 as stated: the returned text is the noise-included one exactly when that
\* has more than 1.5 times the words of the noise-excluded one, whatever the
\* size of the latter.
C15_RecoveryWhateverTheSize ==
    x_pc = "done" /\ content_data.kind = "document" =>
        content_data.full_text =
            IF 2 * WordCount(extract_full_text(html, TRUE))
                   > 3 * WordCount(extract_full_text(html, FALSE))
            THEN extract_full_text(html, TRUE)
            ELSE extract_full_text(html, FALSE)

\* C15 amended: the returned text is the noise-included one exactly when the
\* noise-excluded one has fewer than 100 words and the noise-included one has
\* more than 1.5 times as many; otherwise it is the noise-excluded one.
C15_RecoveryBelowTheGate ==
    x_pc = "done" /\ content_data.kind = "document" =>
        content_data.full_text =
            IF /\ WordCount(extract_full_text(html, FALSE)) < RecoveryGate
               /\ 2 * WordCount(extract_full_text(html, TRUE))
                      > 3 * WordCount(extract_full_text(html, FALSE))
            THEN extract_full_text(html, TRUE)
            ELSE extract_full_text(html, FALSE)

\* C15 witness: a noise-excluded text one word short of the gate was replaced
\* by the noise-included text of twice the size.
C15_Witness ==
    /\ x_pc = "done"
    /\ html.soup = RecoveryPage(RecoveryGate - 1)
    /\ path = "substituted"
    /\ content_data.metadata.word_count = 2 * (RecoveryGate - 1)

\* The region the stated rule picks: the candidate of the first selector whose
\* candidate has more than 100 characters of text, else the body, else the document.
QualifyingArea(soup) ==
    LET Candidate(i) == select_one(soup, CONTENT_SELECTORS[i])
        hits == {i \in 1..Len(CONTENT_SELECTORS) :
                    Candidate(i) # NoNode /\ CharCount(clean_text(get_text(Candidate(i)))) > 100}
    IN IF hits # {} THEN Candidate(CHOOSE i \in hits : \A j \in hits : i <= j)
       ELSE IF find(soup, {"body"}) # NoNode THEN find(soup, {"body"})
       ELSE soup

\* C16: the search area is the candidate of the first selector, in priority
\* order, whose candidate has more than 100 characters of text; with no such
\* candidate it is the body, and with no body the document.
C16_ShortCandidatesArePassedOver ==
    x_pc \in {"full_text", "recover", "structure", "done"} /\ html.soup # NoNode =>
        search_area = QualifyingArea(decompose(html.soup, {"script", "style", "noscript"}))

\* C17: when the search area is made of block elements that each hold text,
\* the text of the DOM walk is the texts of the blocks separated by double line
\* breaks, the text of a block being its text nodes separated by single spaces.
C17_BlocksAreSeparatedByDoubleBreaks ==
    /\ x_pc = "done"
    /\ search_area.kids # <<>>
    /\ \A k \in 1..Len(search_area.kids) :
          /\ search_area.kids[k].tag \in {"p", "h1", "h2", "h3", "h4", "h5", "h6", "li",
                                          "tr", "blockquote", "div", "section", "article"}
          /\ ~_is_hidden(search_area.kids[k]) /\ ~_is_noise_element(search_area.kids[k])
          /\ walk_text_nodes(search_area.kids[k], TRUE) # <<>>
          /\ \A i \in 1..Len(walk_text_nodes(search_area.kids[k], TRUE)) :
                walk_text_nodes(search_area.kids[k], TRUE)[i] # <<"\n">>
    => dom_walk_text(search_area, TRUE) =
           Join(<<"\n", "\n">>,
                [k \in 1..Len(search_area.kids) |->
                    Join(<<" ">>, walk_text_nodes(search_area.kids[k], TRUE))])

\* C18: a table with a thead of h header cells and a tbody of r rows of c cells
\* comes out as one table with h headers and r rows of c cells each.
C18_TableWithHead ==
    \A h \in 1..MaxHeaders, r \in 0..MaxRows, c \in 1..MaxCells :
        x_pc = "done" /\ html.soup = Page(<<TableOf(h, r, c)>>) =>
            /\ Len(content_data.tables) = 1
            /\ Len(content_data.tables[1].headers) = h
            /\ Len(content_data.tables[1].rows) = r
            /\ \A j \in 1..Len(content_data.tables[1].rows) :
                  Len(content_data.tables[1].rows[j]) = c

\* C18 witness: the table of three header cells and two rows of three cells was extracted.
C18_Witness ==
    /\ x_pc = "done"
    /\ html.soup = Page(<<TableOf(3, 2, 3)>>)
    /\ Len(content_data.tables) = 1
    /\ Len(content_data.tables[1].rows) = 2

\* C21: _wait_for_content measures the word count at least once before it returns,
\* even with a zero timeout; it returns False only when the timeout has elapsed;
\* it returns True exactly when the last count it measured is at least min_words;
\* a measurement that fails counts as 0 words; and it does return.
C21_WaitVerdict ==
    /\ outcome.raised => word_count = 0
    /\ w_pc = "returned" =>
         /\ measurements >= 1
         /\ w_result <=> word_count >= min_words
         /\ ~w_result => now - start_time >= timeout_ms
C21_WaitForContent == [](C21_WaitVerdict) /\ <>(w_pc = "returned")
C21_Witness ==
    /\ w_pc = "returned"
    /\ timeout_ms = 0
    /\ measurements = 1
    /\ outcome.raised
    /\ min_words > 0
    /\ ~w_result

\* C22: extract_full_text returns the candidate with the greatest word count:
\* no candidate has more words than the result, of the candidates with the most
\* words it is the earliest in the order DOM walk, Gutenberg, data attributes,
\* JSON-LD, full body, and it is empty when no candidate has a word.
C22_BestCandidateWins ==
    x_pc = "recover" =>
        LET results == candidates(html, FALSE)
            most(i) == \A j \in 1..Len(results) : WordCount(results[j]) <= WordCount(results[i])
        IN /\ \A i \in 1..Len(results) : WordCount(full_text) >= WordCount(results[i])
           /\ IF \A i \in 1..Len(results) : WordCount(results[i]) = 0
              THEN full_text = <<>>
              ELSE \E i \in 1..Len(results) :
                      /\ most(i)
                      /\ \A j \in 1..(i - 1) : ~most(j)
                      /\ full_text = results[i]
C22_Witness ==
    /\ x_pc = "recover"
    /\ WordCount(html.gutenberg) = MaxStrategyWords
    /\ WordCount(html.data_attrs) = MaxStrategyWords
    /\ WordCount(html.json_ld) = MaxStrategyWords
    /\ full_text = html.gutenberg

\* C23: for a table with no thead, the headers are the cells of the table's
\* first row, and that row is not among the data rows.
C23_FirstRowIsTheHeader ==
    LET tables == find_all(search_area, {"table"})
        first_row == TextsOf(find_all(find(tables[1].node, {"tr"}), {"td", "th"}))
    IN (/\ x_pc = "done"
        /\ content_data.kind = "document"
        /\ Len(tables) = 1
        /\ find(tables[1].node, {"thead"}) = NoNode
        /\ first_row # <<>>)
       => /\ Len(content_data.tables) = 1
          /\ content_data.tables[1].headers = first_row
          /\ \A k \in 1..Len(content_data.tables[1].rows) :
                content_data.tables[1].rows[k] # first_row

\* The ul/ol elements below n that have no list and no list item above them, in
\* document order.
RECURSIVE OuterLists(_)
OuterLists(n) ==
    Flatten([i \in 1..Len(n.kids) |->
                IF n.kids[i].tag \in {"ul", "ol"} THEN <<n.kids[i]>>
                ELSE IF n.kids[i].tag = "li" THEN <<>>
                ELSE OuterLists(n.kids[i])])

\* C24: every entry of `lists` comes from a ul/ol that has no list and no list
\* item among its ancestors at any depth, with the texts of its direct li
\* children as items.
C24_OnlyOuterLists ==
    (x_pc = "done" /\ content_data.kind = "document") =>
        LET outer == OuterLists(search_area)
            NonEmpty(text) == text # <<>>
        IN \A k \in 1..Len(content_data.lists) :
              \E i \in 1..Len(outer) :
                 content_data.lists[k] =
                    [tag |-> outer[i].tag, items |-> SelectSeq(ItemsOf(outer[i]), NonEmpty)]

\* a is b with some entries left out
RECURSIVE IsSubSeq(_, _)
IsSubSeq(a, b) ==
    IF a = <<>> THEN TRUE
    ELSE IF b = <<>> THEN FALSE
    ELSE IF Head(a) = Head(b) THEN IsSubSeq(Tail(a), Tail(b))
    ELSE IsSubSeq(a, Tail(b))

\* C25: the entries of elements_in_order are in document order and none comes
\* from an element whose parent is a heading, a paragraph, a list, a table or a
\* blockquote.
C25_TopLevelElementsInOrder ==
    (x_pc = "done" /\ content_data.kind = "document") =>
        LET kinds == {"h1", "h2", "h3", "h4", "h5", "h6", "p", "ul", "ol", "table", "blockquote"}
            TopLevel(d) == d.parent \notin kinds
            found == SelectSeq(find_all(search_area, kinds), TopLevel)
            entries == [i \in 1..Len(found) |->
                           [tag |-> found[i].node.tag, text |-> TextsOf(found)[i]]]
            reported == [k \in 1..Len(content_data.elements_in_order) |->
                            [tag |-> content_data.elements_in_order[k].tag,
                             text |-> content_data.elements_in_order[k].text]]
        IN IsSubSeq(reported, entries)

\* The trimmed texts of the text nodes below n that are not empty and lie in no
\* skipped, hidden or (when noise is excluded) noise-matched subtree, in
\* document order.
RECURSIVE VisibleTexts(_, _)
VisibleTexts(n, skip_noise) ==
    Flatten([i \in 1..Len(n.kids) |->
                LET child == n.kids[i]
                IN IF child.tag = "#text"
                   THEN (IF Strip(child.text) # <<>> THEN <<Strip(child.text)>> ELSE <<>>)
                   ELSE IF \/ child.tag = "#comment"
                           \/ child.tag \in SKIP_TAGS
                           \/ _is_hidden(child)
                           \/ skip_noise /\ _is_noise_element(child)
                   THEN <<>>
                   ELSE VisibleTexts(child, skip_noise)])

\* C26: the DOM walk yields, between its block markers, the trimmed text of
\* every such text node, in document order, single characters included.
C26_EveryTextNodeContributes ==
    (x_pc \in {"full_text", "recover", "structure", "done"} /\ search_area # NoNode) =>
        LET NotMarker(text) == text # <<"\n">>
        IN \A skip_noise \in BOOLEAN :
              SelectSeq(walk_text_nodes(search_area, skip_noise), NotMarker)
                 = VisibleTexts(search_area, skip_noise)

\* C27: metadata.title is the text of the title element when there is one,
\* otherwise the text of the first heading (read here as the first h1),
\* otherwise the content of the Open-Graph title property, and empty otherwise.
C27_TitleFallbacks ==
    (x_pc = "done" /\ content_data.kind = "document") =>
        LET title == find(html.soup, {"title"})
            h1 == find(html.soup, {"h1"})
            OgTitle(d) == d.node.tag = "meta" /\ d.node.property = "og:title"
            og == SelectSeq(Descendants(html.soup), OgTitle)
        IN content_data.metadata.title =
              IF title # NoNode THEN clean_text(get_text(title))
              ELSE IF h1 # NoNode THEN clean_text(get_text(h1))
              ELSE IF og # <<>> THEN clean_text(og[1].node.content)
              ELSE <<>>

\* C28: once cleanup() has completed and no render call is running, no driver
\* is running and no browser is live but those the module's handles refer to:
\* every driver _get_browser started has been stopped and every browser it
\* launched has been closed.
C28_NothingLeftRunning ==
    (cl_pc = "done" /\ \A p \in Calls : pc[p] \in {"idle", "done"}) =>
        /\ \A d \in DriverIds : dstate[d] = "running" => _playwright = d
        /\ \A b \in BrowserIds : bstate[b] = "live" => _browser = b

\* C29: when cleanup() completes and no render call has been in flight since it
\* was called, _browser and _playwright are both unset; a cleanup() called in
\* that state returns at once and changes no handle and no process; and a render
\* call that arrives in that state starts a driver to launch a new browser.
C29_CleanupLeavesNothingSet ==
    [][/\ (cl_pc' = "done" /\ cl_alone') => (_browser' = None /\ _playwright' = None)
       /\ (cl_pc = "done" /\ cl_alone /\ cl_calls' = cl_calls + 1)
             => (cl_pc' = "done" /\ globals' = globals /\ world' = world)
       /\ \A p \in Calls :
             (cl_pc = "done" /\ cl_alone /\ pc[p] = "idle" /\ pc'[p] # "idle")
                => pc'[p] = "start"]_vars
C29_Witness ==
    /\ cl_pc = "done"
    /\ cl_calls = MaxCleanups
    /\ result[1] = Returned
    /\ bstate[1] = "closed"
    /\ dstate[1] = "stopped"
    /\ pc[2] = "start"
    /\ _browser = None

\* C30: each score-based recommendation of /analyze is in the response exactly
\* when the score of its category is below its threshold: 70 for the meta tags,
\* the headings, the images and the content, 50 for the schema.
C30_RecommendationsFollowScores ==
    sc_pc = "done" =>
        LET Recommended(text) == \E i \in 1..Len(recommendations) : recommendations[i] = text
        IN /\ Recommended("Improve meta tags (title and description) for better SERP appearance")
                 <=> scores["meta"] < 70
           /\ Recommended("Fix heading structure to improve content hierarchy")
                 <=> scores["headings"] < 70
           /\ Recommended("Add descriptive alt text to all images for accessibility and SEO")
                 <=> scores["images"] < 70
           /\ Recommended("Implement structured data (Schema.org) for rich results")
                 <=> scores["schema"] < 50
           /\ Recommended("Improve content quality and readability")
                 <=> scores["content"] < 70

====
